---- MODULE Spec2Model ----
(***************************************************************************)
(* Model of the Rio Hondo schedule parser (collectors/rio_hondo/parser.py) *)
(* and of the ScheduleData aggregate (models.py).                          *)
(*                                                                         *)
(* A text (Python str) is a sequence of one-character strings, so that     *)
(* strip, lower, substring search, split and the regular expressions of    *)
(* the parser are computed, not assumed.  An Optional value is the empty   *)
(* sequence (None) or a one-element sequence holding the value.            *)
(***************************************************************************)
EXTENDS Integers, Sequences, FiniteSets, TLC

(***************************************************************************)
(* Optional values                                                         *)
(***************************************************************************)
None == << >>

Some(x) == << x >>

(***************************************************************************)
(* Characters and Python string operations                                 *)
(***************************************************************************)
UpperChars == << "A", "B", "C", "D", "E", "F", "G", "H", "I", "J", "K", "L", "M",
                 "N", "O", "P", "Q", "R", "S", "T", "U", "V", "W", "X", "Y", "Z" >>

LowerChars == << "a", "b", "c", "d", "e", "f", "g", "h", "i", "j", "k", "l", "m",
                 "n", "o", "p", "q", "r", "s", "t", "u", "v", "w", "x", "y", "z" >>

DigitChars == << "0", "1", "2", "3", "4", "5", "6", "7", "8", "9" >>

Range(s) == { s[i] : i \in DOMAIN s }

DigitSet == Range(DigitChars)

UpperSet == Range(UpperChars)

WordSet == Range(UpperChars) \cup Range(LowerChars) \cup Range(DigitChars) \cup {"_"}

\* \d of the re module, on the ASCII alphabet of the model
IsDigit(c) == c \in DigitSet

\* \w of the re module: letters, digits and the underscore
IsWord(c) == c \in WordSet

\* \s of the re module and the characters str.strip() removes
IsSpace(c) == c \in {" ", "\t", "\n"}

\* the position of the character c in the sequence s
RECURSIVE IndexOf(_, _, _)
IndexOf(s, c, i) == IF s[i] = c THEN i ELSE IndexOf(s, c, i + 1)

\* the value of a decimal digit
DigitVal(c) == IndexOf(DigitChars, c, 1) - 1

\* str.lower() on one character
LowerChar(c) == IF c \in UpperSet THEN LowerChars[IndexOf(UpperChars, c, 1)] ELSE c

\* str.lower()
Lower(t) == [i \in DOMAIN t |-> LowerChar(t[i])]

\* the number of whitespace characters from position i on, and back from position i
RECURSIVE SpaceRun(_, _)
SpaceRun(t, i) == IF i > Len(t) \/ ~IsSpace(t[i]) THEN 0 ELSE 1 + SpaceRun(t, i + 1)

RECURSIVE SpaceRunBack(_, _)
SpaceRunBack(t, i) == IF i < 1 \/ ~IsSpace(t[i]) THEN 0 ELSE 1 + SpaceRunBack(t, i - 1)

\* the number of \w characters from position i on
RECURSIVE WordRun(_, _)
WordRun(t, i) == IF i > Len(t) \/ ~IsWord(t[i]) THEN 0 ELSE 1 + WordRun(t, i + 1)

\* str.strip(): the text without its leading and trailing whitespace
Strip(t) ==
    LET lead == SpaceRun(t, 1)
    IN  IF lead = Len(t) THEN << >>
        ELSE SubSeq(t, lead + 1, Len(t) - SpaceRunBack(t, Len(t)))

\* the first position from i on where sub occurs in t, 0 when there is none
RECURSIVE FindFrom(_, _, _)
FindFrom(t, sub, i) ==
    IF i + Len(sub) - 1 > Len(t) THEN 0
    ELSE IF SubSeq(t, i, i + Len(sub) - 1) = sub THEN i
    ELSE FindFrom(t, sub, i + 1)

\* str.find(sub) + 1: the position of the first occurrence of sub, 0 when absent
Find(t, sub) == FindFrom(t, sub, 1)

\* the Python test  sub in t
Contains(t, sub) == Find(t, sub) # 0

\* sep.join(parts)
RECURSIVE Join(_, _)
Join(parts, sep) ==
    IF Len(parts) = 0 THEN << >>
    ELSE IF Len(parts) = 1 THEN parts[1]
    ELSE parts[1] \o sep \o Join(Tail(parts), sep)

\* str.split(sep): every piece between occurrences of the separator sep
RECURSIVE Split(_, _)
Split(t, sep) ==
    LET p == Find(t, sep)
    IN  IF p = 0 THEN << t >>
        ELSE << SubSeq(t, 1, p - 1) >> \o Split(SubSeq(t, p + Len(sep), Len(t)), sep)

\* str.split(sep, 1): at most one split, at the first occurrence of sep
Split1(t, sep) ==
    LET p == Find(t, sep)
    IN  IF p = 0 THEN << t >>
        ELSE << SubSeq(t, 1, p - 1), SubSeq(t, p + Len(sep), Len(t)) >>

\* re.sub(r'[^\d]', '', t): the digits of t, in order
OnlyDigits(t) == SelectSeq(t, IsDigit)

\* int() of a text of decimal digits
RECURSIVE DigitsToInt(_)
DigitsToInt(t) ==
    IF Len(t) = 0 THEN 0
    ELSE 10 * DigitsToInt(SubSeq(t, 1, Len(t) - 1)) + DigitVal(t[Len(t)])

(***************************************************************************)
(* Literal texts of the parser                                             *)
(***************************************************************************)
T_UNKNOWN == << "U", "N", "K", "N", "O", "W", "N" >>

T_UnknownCourse == << "U", "n", "k", "n", "o", "w", "n", " ", "C", "o", "u", "r", "s", "e" >>

T_TBA == << "T", "B", "A" >>

T_ARR == << "A", "R", "R" >>

T_ASYNC == << "A", "S", "Y", "N", "C" >>

T_LEC == << "L", "E", "C" >>

T_arr == << "a", "r", "r" >>

T_arr_in_addition == << "a", "r", "r", " ", "i", "n", " ", "a", "d", "d", "i", "t", "i", "o", "n" >>

T_online == << "o", "n", "l", "i", "n", "e" >>

T_async == << "a", "s", "y", "n", "c" >>

T_sync == << "s", "y", "n", "c" >>

T_hybrid == << "h", "y", "b", "r", "i", "d" >>

T_OnlineASYNC == << "O", "n", "l", "i", "n", "e", " ", "A", "S", "Y", "N", "C" >>

T_OnlineSYNC == << "O", "n", "l", "i", "n", "e", " ", "S", "Y", "N", "C" >>

T_Online == << "O", "n", "l", "i", "n", "e" >>

T_Hybrid == << "H", "y", "b", "r", "i", "d" >>

T_Arranged == << "A", "r", "r", "a", "n", "g", "e", "d" >>

T_InPerson == << "I", "n", "-", "P", "e", "r", "s", "o", "n" >>

T_p_course_popup == << "p", "_", "c", "o", "u", "r", "s", "e", "_", "p", "o", "p", "u", "p" >>

T_mailto == << "m", "a", "i", "l", "t", "o", ":" >>

T_ZeroCostTextbook == << "Z", "e", "r", "o", "C", "o", "s", "t", "T", "e", "x", "t", "b", "o", "o", "k" >>

\* the day codes _parse_meeting_times accepts (parser.py line 298)
DayCodes == { << "M" >>, << "T" >>, << "W" >>, << "R" >>, << "F" >>, << "S" >>,
              << "M", "W" >>, << "T", "R" >>, << "M", "W", "F" >>,
              << "M", "T", "W", "R" >>, << "M", "T", "W", "R", "F" >> }

(***************************************************************************)
(* Field conversions of RioHondoScheduleParser                             *)
(***************************************************************************)
\* re.match(r'^(\w+)\s*-', text): group 1, or None when the text does not match
MatchSubjectHeader(text) ==
    LET n == WordRun(text, 1)
        k == SpaceRun(text, n + 1)
    IN  IF n >= 1 /\ n + k + 1 <= Len(text) /\ text[n + k + 1] = "-"
        THEN Some(SubSeq(text, 1, n))
        ELSE None

\* _parse_course_code: (subject, course_number) of a header "ACCT 101 - Title",
\* ("", "") when the header is unset, empty or does not match
\* r'^(\w+)\s+(\w+)\s*-'
_parse_course_code(course_header) ==
    IF course_header = None \/ course_header[1] = << >> THEN << << >>, << >> >>
    ELSE LET text == course_header[1]
             n1 == WordRun(text, 1)
             k1 == SpaceRun(text, n1 + 1)
             n2 == WordRun(text, n1 + k1 + 1)
             k2 == SpaceRun(text, n1 + k1 + n2 + 1)
             e  == n1 + k1 + n2 + k2 + 1
         IN  IF n1 >= 1 /\ k1 >= 1 /\ n2 >= 1 /\ e <= Len(text) /\ text[e] = "-"
             THEN << SubSeq(text, 1, n1), SubSeq(text, n1 + k1 + 1, n1 + k1 + n2) >>
             ELSE << << >>, << >> >>

\* _extract_course_title: the part after the first " - ", stripped
_extract_course_title(course_header) ==
    IF course_header = None \/ course_header[1] = << >> THEN T_UnknownCourse
    ELSE LET parts == Split1(course_header[1], << " ", "-", " " >>)
         IN  IF Len(parts) > 1 THEN Strip(parts[2]) ELSE course_header[1]

\* A Python float that a decimal text denotes: num / den, den a power of ten,
\* in lowest decimal form (3.0 and 3 are the same value)
RECURSIVE DropTrailingZeros(_)
DropTrailingZeros(t) ==
    IF Len(t) > 0 /\ t[Len(t)] = "0" THEN DropTrailingZeros(SubSeq(t, 1, Len(t) - 1)) ELSE t

RECURSIVE Pow10(_)
Pow10(n) == IF n = 0 THEN 1 ELSE 10 * Pow10(n - 1)

Float(num, den) == [num |-> num, den |-> den]

IsDigitOrDot(c) == IsDigit(c) \/ c = "."

\* re.sub(r'[^\d.]', '', t): the digits and dots of t, in order
OnlyDigitsAndDots(t) == SelectSeq(t, IsDigitOrDot)

\* _parse_units: float() of the digits and dots of the text; 0.0 when there are
\* none or when float() raises ValueError (no digit, or more than one dot)
_parse_units(units_text) ==
    LET clean_text == OnlyDigitsAndDots(units_text)
        digits == OnlyDigits(clean_text)
        dots == Len(clean_text) - Len(digits)
        p == Find(clean_text, << "." >>)
        whole == IF p = 0 THEN clean_text ELSE SubSeq(clean_text, 1, p - 1)
        frac == IF p = 0 THEN << >>
                ELSE DropTrailingZeros(SubSeq(clean_text, p + 1, Len(clean_text)))
    IN  IF clean_text = << >> THEN Float(0, 1)
        ELSE IF dots > 1 \/ digits = << >> THEN Float(0, 1)
        ELSE Float(DigitsToInt(whole \o frac), Pow10(Len(frac)))

\* _parse_int that keeps a leading minus sign
ParseIntKeepingSign(text) ==
    LET clean_text == OnlyDigits(text)
    IN  IF clean_text = << >> THEN 0
        ELSE IF Contains(text, << "-" >>) THEN 0 - DigitsToInt(clean_text)
        ELSE DigitsToInt(clean_text)

\* _parse_int: int() of the digits of the text, 0 when there are none
_parse_int(text) ==
    LET clean_text == OnlyDigits(text)
    IN  IF clean_text # << >> THEN DigitsToInt(clean_text) ELSE 0

\* dd/dd at position i of the text
IsMonthDay(t, i) ==
    /\ i + 4 <= Len(t)
    /\ IsDigit(t[i]) /\ IsDigit(t[i + 1]) /\ t[i + 2] = "/"
    /\ IsDigit(t[i + 3]) /\ IsDigit(t[i + 4])

\* _parse_date_range: re.match(r'(\d{2}/\d{2})\s*-\s*(\d{2}/\d{2})', date_text)
_parse_date_range(date_text) ==
    IF date_text = << >> THEN << None, None >>
    ELSE LET k1 == SpaceRun(date_text, 6)
             d  == 6 + k1
             k2 == SpaceRun(date_text, d + 1)
             s  == d + 1 + k2
         IN  IF /\ IsMonthDay(date_text, 1)
                /\ d <= Len(date_text) /\ date_text[d] = "-"
                /\ IsMonthDay(date_text, s)
             THEN << Some(SubSeq(date_text, 1, 5)), Some(SubSeq(date_text, s, s + 4)) >>
             ELSE << None, None >>

(***************************************************************************)
(* models.py: MeetingTime, Enrollment, Course                              *)
(***************************************************************************)
MeetingTime(days, start_time, end_time, is_arranged) ==
    [days |-> days, start_time |-> start_time, end_time |-> end_time,
     is_arranged |-> is_arranged]

Enrollment(capacity, actual, remaining) ==
    [capacity |-> capacity, actual |-> actual, remaining |-> remaining]

(***************************************************************************)
(* _parse_meeting_times and _determine_delivery_method                     *)
(***************************************************************************)
\* meeting_info[i] for a Python index i
At(seq, i) == seq[i + 1]

\* the accepted day code of slot i, or "" (the loop body of lines 295-299)
DayPart(meeting_info, i) ==
    IF i < Len(meeting_info) /\ Strip(At(meeting_info, i)) # << >>
       /\ Strip(At(meeting_info, i)) \in DayCodes
    THEN Strip(At(meeting_info, i))
    ELSE << >>

\* lines 291-318: the regular day/time entry, when one is recovered
ScheduledTimes(meeting_info) ==
    IF Len(meeting_info) >= 8
    THEN LET days == DayPart(meeting_info, 1) \o DayPart(meeting_info, 3)
                     \o DayPart(meeting_info, 5)
             time_str == IF Len(meeting_info) > 7 THEN At(meeting_info, 7) ELSE << >>
             time_parts == Split(time_str, << "-" >>)
         IN  IF /\ days # << >> /\ time_str # << >>
                /\ Contains(time_str, << "-" >>) /\ Contains(time_str, << ":" >>)
                /\ Len(time_parts) = 2
             THEN << MeetingTime(days, Some(Strip(time_parts[1])),
                                 Some(Strip(time_parts[2])), FALSE) >>
             ELSE << >>
    ELSE << >>

\* _parse_meeting_times without the TBA/ASYNC fallback of lines 320-336
ParseMeetingTimesNoFallback(meeting_info, location) ==
    LET meeting_text == Join(meeting_info, << " " >>)
    IN  IF Contains(Lower(meeting_text), T_arr)
        THEN << MeetingTime(T_ARR, None, None, TRUE) >>
        ELSE ScheduledTimes(meeting_info)

\* _parse_meeting_times with the marker test of line 278 made on the text as
\* written, without lower()
ParseMeetingTimesCaseSensitive(meeting_info, location) ==
    LET meeting_text == Join(meeting_info, << " " >>)
        scheduled == ScheduledTimes(meeting_info)
    IN  IF Contains(meeting_text, T_arr)
        THEN << MeetingTime(T_ARR, None, None, TRUE) >>
        ELSE IF scheduled # << >> THEN scheduled
        ELSE IF Contains(Lower(location), T_online) /\ Contains(Lower(location), T_async)
        THEN << MeetingTime(T_ASYNC, None, None, TRUE) >>
        ELSE << MeetingTime(T_TBA, None, None, TRUE) >>

\* _parse_meeting_times with a fallback that reads "online" alone as
\* asynchronous
ParseMeetingTimesOnlineIsAsync(meeting_info, location) ==
    LET meeting_text == Join(meeting_info, << " " >>)
        scheduled == ScheduledTimes(meeting_info)
    IN  IF \/ Contains(Lower(meeting_text), T_arr)
           \/ Contains(Lower(meeting_text), T_arr_in_addition)
        THEN << MeetingTime(T_ARR, None, None, TRUE) >>
        ELSE IF scheduled # << >> THEN scheduled
        ELSE IF Contains(Lower(location), T_online)
        THEN << MeetingTime(T_ASYNC, None, None, TRUE) >>
        ELSE << MeetingTime(T_TBA, None, None, TRUE) >>

_parse_meeting_times(meeting_info, location) ==
    LET meeting_text == Join(meeting_info, << " " >>)
        scheduled == ScheduledTimes(meeting_info)
    IN  IF \/ Contains(Lower(meeting_text), T_arr)
           \/ Contains(Lower(meeting_text), T_arr_in_addition)
        THEN << MeetingTime(T_ARR, None, None, TRUE) >>
        ELSE IF scheduled # << >> THEN scheduled
        ELSE IF Contains(Lower(location), T_online) /\ Contains(Lower(location), T_async)
        THEN << MeetingTime(T_ASYNC, None, None, TRUE) >>
        ELSE << MeetingTime(T_TBA, None, None, TRUE) >>

\* _determine_delivery_method without the test of is_arranged of line 364
DeliveryMethodIgnoringArranged(location, meeting_times) ==
    LET location_lower == Lower(location)
    IN  IF Contains(location_lower, T_online) /\ Contains(location_lower, T_async)
        THEN T_OnlineASYNC
        ELSE IF Contains(location_lower, T_online) /\ Contains(location_lower, T_sync)
        THEN T_OnlineSYNC
        ELSE IF Contains(location_lower, T_online) THEN T_Online
        ELSE IF Contains(location_lower, T_hybrid) THEN T_Hybrid
        ELSE T_InPerson

_determine_delivery_method(location, meeting_times) ==
    LET location_lower == Lower(location)
    IN  IF Contains(location_lower, T_online) /\ Contains(location_lower, T_async)
        THEN T_OnlineASYNC
        ELSE IF Contains(location_lower, T_online) /\ Contains(location_lower, T_sync)
        THEN T_OnlineSYNC
        ELSE IF Contains(location_lower, T_online) THEN T_Online
        ELSE IF Contains(location_lower, T_hybrid) THEN T_Hybrid
        ELSE IF \E i \in DOMAIN meeting_times : meeting_times[i].is_arranged
        THEN T_Arranged
        ELSE T_InPerson

(***************************************************************************)
(* The page: table rows and their cells, as BeautifulSoup presents them    *)
(***************************************************************************)
\* One td: its class attribute, its text, the href of its anchor and the src
\* of its image when it has one, and whether it carries a colspan attribute
Cell(cls, text) ==
    [cls |-> cls, text |-> text, href |-> None, img |-> None, colspan |-> FALSE]

\* One tr: its td cells, and whether reading the text of its cells raises
Row(tds, fault) == [tds |-> tds, fault |-> fault]

\* Tag.get_text(strip=True) of a cell
get_text(td) == Strip(td.text)

\* the cell holds an anchor whose href matches r'p_course_popup'
HasPopupLink(td) == td.href # None /\ Contains(td.href[1], T_p_course_popup)

\* row.find('td', attrs={'class': re.compile(r'subject_header')}): the position
\* of the first such cell, 0 when there is none
FindSubjectHeader(row) ==
    LET hits == { i \in DOMAIN row.tds : row.tds[i].cls = "subject_header" }
    IN  IF hits = {} THEN 0 ELSE CHOOSE i \in hits : \A j \in hits : i <= j

\* row.find('td', class_='crn_header')
FindCourseHeader(row) ==
    LET hits == { i \in DOMAIN row.tds : row.tds[i].cls = "crn_header" }
    IN  IF hits = {} THEN 0 ELSE CHOOSE i \in hits : \A j \in hits : i <= j

\* _is_course_row: the early return makes the link alone decide
_is_course_row(row) ==
    LET crn_link == \E i \in DOMAIN row.tds : HasPopupLink(row.tds[i])
        tds == { i \in DOMAIN row.tds : row.tds[i].cls \in {"default1", "default2"} }
    IN  IF crn_link THEN TRUE
        ELSE Cardinality(tds) >= 15 /\ crn_link

\* _get_td_text
_get_td_text(tds, index) ==
    IF index < Len(tds) THEN get_text(At(tds, index)) ELSE << >>

\* lines 143-153: the meeting-time block handed to _parse_meeting_times
MeetingInfo(tds) ==
    IF Len(tds) > 6
    THEN IF At(tds, 6).colspan
         THEN << << >>, << >>, << >>, << >>, << >>, << >>, << >>, _get_td_text(tds, 6) >>
         ELSE [i \in 1..((IF Len(tds) < 14 THEN Len(tds) ELSE 14) - 6) |->
                  _get_td_text(tds, i + 5)]
    ELSE << >>

\* str.replace(old, ''): the text without any occurrence of old
RECURSIVE Remove(_, _)
Remove(t, old) ==
    LET p == Find(t, old)
    IN  IF p = 0 THEN t
        ELSE SubSeq(t, 1, p - 1) \o Remove(SubSeq(t, p + Len(old), Len(t)), old)

\* lines 101-109: the text of the first popup link in the first five cells
CrnOf(tds) ==
    LET hits == { i \in DOMAIN tds : i <= 5 /\ HasPopupLink(tds[i]) }
    IN  IF hits = {} THEN None
        ELSE Some(get_text(tds[CHOOSE i \in hits : \A j \in hits : i <= j]))

\* lines 113-220: the Course of a row whose CRN was found
\* lines 114-117 with the fallback going straight to "UNKNOWN"
SubjectForIgnoringSubjectHeader(current_subject, current_course_title) ==
    LET code == _parse_course_code(current_course_title)
    IN  IF code[1] # << >> THEN code[1] ELSE T_UNKNOWN

\* lines 114-117: the subject of the course header, else current_subject, else
\* "UNKNOWN"
SubjectFor(current_subject, current_course_title) ==
    LET code == _parse_course_code(current_course_title)
    IN  IF code[1] # << >> THEN code[1]
        ELSE IF current_subject # None /\ current_subject[1] # << >>
             THEN current_subject[1] ELSE T_UNKNOWN

\* lines 180-183 without "or 16"
WeeksOfParsedOnly(tds) ==
    IF Len(tds) > 21 THEN _parse_int(_get_td_text(tds, 21)) ELSE 16

\* lines 180-183: weeks = 16, replaced by the weeks cell when it parses to
\* something other than 0
WeeksOf(tds) ==
    LET weeks == IF Len(tds) > 21 THEN _parse_int(_get_td_text(tds, 21)) ELSE 16
    IN  IF weeks = 0 THEN 16 ELSE weeks

BuildCourse(tds, crn, current_subject, current_course_title) ==
    LET code == _parse_course_code(current_course_title)
        subject == SubjectFor(current_subject, current_course_title)
        location == IF Len(tds) > 14 THEN _get_td_text(tds, 14) ELSE << >>
        instructor == IF Len(tds) > 18 THEN _get_td_text(tds, 18) ELSE T_TBA
        date_range == IF Len(tds) > 20 THEN _get_td_text(tds, 20) ELSE << >>
        dates == _parse_date_range(date_range)
        meeting_times == _parse_meeting_times(MeetingInfo(tds), location)
    IN  [crn |-> crn,
         subject |-> subject,
         course_number |-> code[2],
         title |-> _extract_course_title(current_course_title),
         units |-> _parse_units(_get_td_text(tds, 5)),
         instructor |-> IF instructor = << >> \/ Strip(instructor) = << >>
                        THEN T_TBA ELSE instructor,
         instructor_email |->
             IF Len(tds) > 19 /\ At(tds, 19).href # None
                /\ Contains(At(tds, 19).href[1], T_mailto)
             THEN Some(Remove(At(tds, 19).href[1], T_mailto)) ELSE None,
         meeting_times |-> meeting_times,
         location |-> location,
         enrollment |-> Enrollment(
             IF Len(tds) > 15 THEN _parse_int(_get_td_text(tds, 15)) ELSE 0,
             IF Len(tds) > 16 THEN _parse_int(_get_td_text(tds, 16)) ELSE 0,
             IF Len(tds) > 17 THEN _parse_int(_get_td_text(tds, 17)) ELSE 0),
         status |-> _get_td_text(tds, 0),
         section_type |-> T_LEC,
         zero_textbook_cost |->
             Len(tds) > 4 /\ At(tds, 4).img # None
             /\ Contains(At(tds, 4).img[1], T_ZeroCostTextbook),
         delivery_method |-> _determine_delivery_method(location, meeting_times),
         weeks |-> WeeksOf(tds),
         start_date |-> dates[1],
         end_date |-> dates[2],
         additional_hours |-> None,
         book_link |-> IF Len(tds) > 3 THEN At(tds, 3).href ELSE None]

\* _parse_course_row with only the first length test, of line 93
ParseCourseRowTenCells(row, current_subject, current_course_title) ==
    LET tds == row.tds
        crn == CrnOf(tds)
    IN  IF Len(tds) < 10 THEN None
        ELSE IF crn = None THEN None
        ELSE IF row.fault THEN None
        ELSE IF crn[1] = << >> THEN None
        ELSE Some(BuildCourse(tds, crn[1], current_subject, current_course_title))

\* _parse_course_row: the Course of the row, or None.  Everything runs inside
\* try/except Exception, so a row whose cells cannot be read yields None too.
_parse_course_row(row, current_subject, current_course_title) ==
    LET tds == row.tds
        crn == CrnOf(tds)
    IN  IF Len(tds) < 10 THEN None
        ELSE IF Len(tds) < 15 THEN None
        ELSE IF crn = None THEN None
        ELSE IF row.fault THEN None
        ELSE IF crn[1] = << >> THEN None
        ELSE Some(BuildCourse(tds, crn[1], current_subject, current_course_title))

(***************************************************************************)
(* models.py: ScheduleData and its model_post_init                         *)
(***************************************************************************)
\* Python's order on str, on the characters a subject code can hold
CharOrder == DigitChars \o UpperChars \o << "_" >> \o LowerChars

Ord(c) == CHOOSE i \in DOMAIN CharOrder : CharOrder[i] = c

RECURSIVE TextLeq(_, _)
TextLeq(a, b) ==
    IF Len(a) = 0 THEN TRUE
    ELSE IF Len(b) = 0 THEN FALSE
    ELSE IF a[1] = b[1] THEN TextLeq(Tail(a), Tail(b))
    ELSE Ord(a[1]) < Ord(b[1])

\* sorted(list(S)) of a set of texts
RECURSIVE Sorted(_)
Sorted(S) ==
    IF S = {} THEN << >>
    ELSE LET least == CHOOSE x \in S : \A y \in S : TextLeq(x, y)
         IN  << least >> \o Sorted(S \ {least})

\* set(c.subject for c in courses)
Subjects(courses) == { courses[i].subject : i \in DOMAIN courses }

\* the subjects in the order the courses first show them
RECURSIVE DepartmentsInEncounterOrder(_)
DepartmentsInEncounterOrder(list) ==
    IF Len(list) = 0 THEN << >>
    ELSE LET front == DepartmentsInEncounterOrder(SubSeq(list, 1, Len(list) - 1))
             last == list[Len(list)].subject
         IN  IF last \in Range(front) THEN front ELSE Append(front, last)

\* sorted(list(set(c.subject for c in courses)))
Departments(list) == Sorted(Subjects(list))

\* d[k] = v on a dict
Put(d, k, v) == [x \in (DOMAIN d) \cup {k} |-> IF x = k THEN v ELSE d[x]]

\* ScheduleData(...): the constructor followed by model_post_init, which fills
\* metadata and clears the two deprecated fields
ScheduleData(term, term_code, collection_timestamp, source_url, college_id, collector_version, courses, metadata, total_courses, departments) ==
    LET m0 == IF metadata = None THEN << >> ELSE metadata[1]
        m1 == IF "total_courses" \notin DOMAIN m0
              THEN Put(m0, "total_courses", Len(courses)) ELSE m0
        m2 == IF "departments" \notin DOMAIN m1
              THEN Put(m1, "departments", Departments(courses)) ELSE m1
        m3 == IF total_courses # None THEN Put(m2, "total_courses", total_courses[1]) ELSE m2
        m4 == IF departments # None THEN Put(m3, "departments", departments[1]) ELSE m3
    IN  [term |-> term, term_code |-> term_code,
         collection_timestamp |-> collection_timestamp,
         source_url |-> source_url, college_id |-> college_id,
         collector_version |-> collector_version,
         courses |-> courses, metadata |-> m4,
         total_courses |-> None, departments |-> None]

(***************************************************************************)
(* The pages the model parses                                              *)
(***************************************************************************)
\* the longest page, in rows
MaxRows == 3

T_href_popup == << "w", "i", "n", "O", "p", "e", "n", "(" >> \o T_p_course_popup \o << ")" >>

LinkCell(cls, text) == [Cell(cls, text) EXCEPT !.href = Some(T_href_popup)]

\* n cells of class cls, empty except where special gives the cell of a Python index
RECURSIVE Tds(_, _, _)
Tds(n, cls, special) ==
    IF n = 0 THEN << >>
    ELSE Append(Tds(n - 1, cls, special),
                IF (n - 1) \in DOMAIN special THEN special[n - 1] ELSE Cell(cls, << >>))

T_MATH_header == << " ", "M", "A", "T", "H", " ", "-", " ", "M", "a", "t", "h", " " >>

T_ACCT100_header == << "A", "C", "C", "T", " ", "1", "0", "0", " ", "-", " ",
                       "I", "n", "t", "r", "o", " ", "-", " ", "I" >>

T_MATH200_header == << "M", "A", "T", "H", " ", "2", "0", "0", "-", "C", "a", "l", "c" >>

\* the cells 0..21 of the section row of Scenario A
SectionCells(cls, crn) ==
    0 :> Cell(cls, << "O", "p", "e", "n" >>)
    @@ 1 :> Cell(cls, T_LEC)
    @@ 2 :> LinkCell(cls, crn)
    @@ 3 :> [Cell(cls, << "B", "o", "o", "k" >>) EXCEPT !.href = Some(<< "b", "k", "s", "t", "r" >>)]
    @@ 4 :> [Cell(cls, << >>) EXCEPT !.img = Some(T_ZeroCostTextbook \o << ".", "p", "n", "g" >>)]
    @@ 5 :> Cell(cls, << "3", ".", "0" >>)
    @@ 7 :> Cell(cls, << "M", "W" >>)
    @@ 13 :> Cell(cls, << "9", ":", "0", "0", " ", "A", "M", "-", "1", "0", ":", "5", "0", " ", "A", "M" >>)
    @@ 14 :> Cell(cls, << "A", "2", "0", "7" >>)
    @@ 15 :> Cell(cls, << "3", "0" >>)
    @@ 16 :> Cell(cls, << "2", "5" >>)
    @@ 17 :> Cell(cls, << "5" >>)
    @@ 18 :> Cell(cls, << "S", "m", "i", "t", "h", ",", " ", "J" >>)
    @@ 19 :> [Cell(cls, << "j", "s" >>) EXCEPT !.href = Some(T_mailto \o << "j", "s", "@", "r", "h" >>)]
    @@ 20 :> Cell(cls, << "0", "1", "/", "1", "3", " ", "-", " ", "0", "5", "/", "2", "3" >>)
    @@ 21 :> Cell(cls, << "1", "6" >>)

\* The rows a page is made of:
\*   1  subject header "MATH - Math"
\*   2  course header "ACCT 100 - Intro - I"
\*   3  course header "MATH 200-Calc"
\*   4  a full section row: 22 cells of class default1, CRN link in cell 2
\*   5  a section row of 15 cells without the default1/default2 class, CRN link in cell 2
\*   6  a short row: 12 cells of class default2 and a CRN link in cell 2
\*   7  15 cells of class default1 and no link
\*   8  22 cells of class default1 whose only popup link is in cell 5
\*   9  a full section row whose cells cannot be read
\*  10  a subject header whose cell cannot be read
PageRows ==
    << Row(<< Cell("subject_header", T_MATH_header) >>, FALSE),
       Row(<< Cell("crn_header", T_ACCT100_header) >>, FALSE),
       Row(<< Cell("crn_header", T_MATH200_header) >>, FALSE),
       Row(Tds(22, "default1", SectionCells("default1", << "7", "5", "0", "6", "5" >>)), FALSE),
       Row(Tds(15, "", 2 :> LinkCell("", << "7", "5", "0", "6", "6" >>)
                       @@ 5 :> Cell("", << "i", "n", "v", "a", "l", "i", "d" >>)
                       @@ 14 :> Cell("", << "O", "n", "l", "i", "n", "e", " ", "A", "S", "Y", "N", "C" >>)),
           FALSE),
       Row(Tds(12, "default2", 2 :> LinkCell("default2", << "7", "5", "0", "6", "7" >>)), FALSE),
       Row(Tds(15, "default1", 0 :> Cell("default1", << "O", "p", "e", "n" >>)), FALSE),
       Row(Tds(22, "default1", 5 :> LinkCell("default1", << "7", "5", "0", "6", "8" >>)), FALSE),
       Row(Tds(22, "default1", SectionCells("default1", << "7", "5", "0", "6", "9" >>)), TRUE),
       Row(<< Cell("subject_header", T_MATH_header) >>, TRUE) >>

RowIds == DOMAIN PageRows

(***************************************************************************)
(* RioHondoScheduleParser: the state and parse_schedule_html               *)
(***************************************************************************)
VARIABLES
    current_subject,       \* self.current_subject: None or a subject code
    current_course_title,  \* self.current_course_title: None or a header text
    pc,                    \* "idle", "parsing", "returned" or "raised"
    all_rows,              \* the rows of the page (ids into PageRows): those the loop
                           \* has reached, or the whole page when it is parsed again
    pos,                   \* how many rows of all_rows the loop has consumed
    courses,               \* the local list courses
    result,                \* the ScheduleData the last finished call returned
    entry,                 \* the header context at the start of the current call
    prev,                  \* the courses of the preceding call, when it parsed the same page
    call,                  \* the last direct call of one method: its arguments and
                           \* what it returned
    disk,                  \* the file ScheduleStorage has written, None before
    cpc,                   \* the position of the collector method that is running
    local,                 \* its arguments and local variables
    log,                   \* what it has done so far, in order: requests, waits,
                           \* calls of the steps, writes
    outcome,               \* None while it runs, then what it returned or raised
    collection_metadata,   \* self.collection_metadata, None before the first run
    files                  \* the files of the DetailCollector: the schedule it
                           \* reads, its progress file, the partial and the final
                           \* results

\* the state of the collector, which the parser and the storage never touch
collector_vars == << cpc, local, log, outcome, collection_metadata, files >>

\* the state of the parser and of the storage, which the steps of the collector
\* below leave alone unless they say otherwise
parser_vars == << current_subject, current_course_title, pc, all_rows, pos, courses,
                  result, entry, prev, call, disk >>

vars == << current_subject, current_course_title, pc, all_rows, pos, courses,
           result, entry, prev, call, disk, cpc, local, log, outcome,
           collection_metadata, files >>

\* _parse_subject_header: current_subject after the header cell is handled
_parse_subject_header(header, current) ==
    LET match == MatchSubjectHeader(get_text(header))
    IN  IF match # None THEN Some(match[1]) ELSE current

\* _parse_course_header: current_course_title after the header cell is handled
_parse_course_header(header) == Some(get_text(header))

\* courses.insert(0, course)
AddCourseInFront(list, course) == << course >> \o list

\* courses.append(course)
AddCourse(list, course) == Append(list, course)

\* the loop body with a data-row handler that writes the subject of the Course
\* it built back to self.current_subject
ProcessRowWritingSubject(row, subject, title, list) ==
    LET sh == FindSubjectHeader(row)
        ch == FindCourseHeader(row)
        same == [current_subject |-> subject, current_course_title |-> title,
                 courses |-> list, raised |-> FALSE]
    IN  IF sh # 0
        THEN IF row.fault THEN [same EXCEPT !.raised = TRUE]
             ELSE [same EXCEPT !.current_subject = _parse_subject_header(row.tds[sh], subject)]
        ELSE IF ch # 0
        THEN IF row.fault THEN [same EXCEPT !.raised = TRUE]
             ELSE [same EXCEPT !.current_course_title = _parse_course_header(row.tds[ch])]
        ELSE IF _is_course_row(row)
        THEN LET course == _parse_course_row(row, subject, title)
             IN  IF course # None
                 THEN [same EXCEPT !.courses = AddCourse(list, course[1]),
                                   !.current_subject = Some(course[1].subject)]
                 ELSE same
        ELSE same

\* The body of the loop of parse_schedule_html for one row: the header context
\* and the list after the row, and whether an exception left the loop.  The two
\* header handlers run outside any try block.
ProcessRow(row, subject, title, list) ==
    LET sh == FindSubjectHeader(row)
        ch == FindCourseHeader(row)
        same == [current_subject |-> subject, current_course_title |-> title,
                 courses |-> list, raised |-> FALSE]
    IN  IF sh # 0
        THEN IF row.fault THEN [same EXCEPT !.raised = TRUE]
             ELSE [same EXCEPT !.current_subject = _parse_subject_header(row.tds[sh], subject)]
        ELSE IF ch # 0
        THEN IF row.fault THEN [same EXCEPT !.raised = TRUE]
             ELSE [same EXCEPT !.current_course_title = _parse_course_header(row.tds[ch])]
        ELSE IF _is_course_row(row)
        THEN LET course == _parse_course_row(row, subject, title)
             IN  IF course # None
                 THEN [same EXCEPT !.courses = AddCourse(list, course[1])]
                 ELSE same
        ELSE same

\* the loop of lines 30-47 over the rows of ids rows, from the given context
RECURSIVE ParseRows(_, _, _, _)
ParseRows(rows, subject, title, list) ==
    IF Len(rows) = 0
    THEN [current_subject |-> subject, current_course_title |-> title,
          courses |-> list, raised |-> FALSE]
    ELSE LET after == ProcessRow(PageRows[Head(rows)], subject, title, list)
         IN  IF after.raised THEN after
             ELSE ParseRows(Tail(rows), after.current_subject,
                            after.current_course_title, after.courses)

Init ==
    /\ current_subject = None
    /\ current_course_title = None
    /\ pc = "idle"
    /\ all_rows = << >>
    /\ pos = 0
    /\ courses = << >>
    /\ result = None
    /\ entry = << None, None >>
    /\ prev = None
    /\ call = None
    /\ disk = None
    /\ cpc = "idle"
    /\ local = [method |-> "idle"]
    /\ log = << >>
    /\ outcome = None
    /\ collection_metadata = None
    /\ files = [schedule |-> None, progress |-> None, partial |-> None, final |-> None]

\* RioHondoScheduleParser(): a new parser replaces the old one
Construct ==
    /\ pc = "idle"
    /\ current_subject' = None
    /\ current_course_title' = None
    /\ UNCHANGED << pc, all_rows, pos, courses, result, entry, prev, call, disk >>
    /\ UNCHANGED collector_vars

\* parse_schedule_html(html_content, ...) is called: lines 24-28
BeginParse ==
    /\ pc = "idle"
    /\ pc' = "parsing"
    /\ all_rows' = << >>
    /\ pos' = 0
    /\ courses' = << >>
    /\ result' = None
    /\ entry' = << current_subject, current_course_title >>
    /\ prev' = None
    /\ UNCHANGED << current_subject, current_course_title, call, disk >>
    /\ UNCHANGED collector_vars

\* The caller is done with the call: it keeps the parser and drops the page,
\* the returned aggregate or the exception (collector.py lines 331-342)
Finish ==
    /\ pc \in {"returned", "raised"}
    /\ pc' = "idle"
    /\ all_rows' = << >>
    /\ pos' = 0
    /\ courses' = << >>
    /\ result' = None
    /\ entry' = << None, None >>
    /\ prev' = None
    /\ UNCHANGED << current_subject, current_course_title, call, disk >>
    /\ UNCHANGED collector_vars

\* parse_schedule_html is called again with the html_content of the call that
\* just returned, on the same parser
ParseAgain ==
    /\ pc = "returned"
    /\ pc' = "parsing"
    /\ pos' = 0
    /\ courses' = << >>
    /\ result' = None
    /\ entry' = << current_subject, current_course_title >>
    /\ prev' = Some(result[1].courses)
    /\ UNCHANGED << current_subject, current_course_title, all_rows, call, disk >>
    /\ UNCHANGED collector_vars

\* what one iteration of the loop of lines 30-47 does with the row of id r
LoopBody(r) ==
    LET after == ProcessRow(PageRows[r], current_subject, current_course_title, courses)
    IN  /\ current_subject' = after.current_subject
        /\ current_course_title' = after.current_course_title
        /\ courses' = after.courses
        /\ pc' = IF after.raised THEN "raised" ELSE "parsing"
        /\ pos' = pos + 1

\* one iteration of the loop: the next row of the page is r
ParseRow(r) ==
    /\ pc = "parsing"
    /\ prev = None
    /\ Len(all_rows) < MaxRows
    /\ all_rows' = Append(all_rows, r)
    /\ LoopBody(r)
    /\ UNCHANGED << result, entry, prev, call, disk >>
    /\ UNCHANGED collector_vars

\* one iteration of the loop when the page is parsed again
ReparseRow ==
    /\ pc = "parsing"
    /\ prev # None
    /\ pos < Len(all_rows)
    /\ LoopBody(all_rows[pos + 1])
    /\ UNCHANGED << all_rows, result, entry, prev, call, disk >>
    /\ UNCHANGED collector_vars

\* lines 49-59: the page has no more rows and the aggregate is returned
Return ==
    /\ pc = "parsing"
    /\ pos = Len(all_rows)
    /\ result' = Some(ScheduleData("Fall 2025", "202570", "datetime.now()",
                                   "https://example.com", "rio-hondo", "1.0.0",
                                   courses, None, Some(Len(courses)),
                                   Some(Departments(courses))))
    /\ pc' = "returned"
    /\ UNCHANGED << current_subject, current_course_title, all_rows, pos, courses,
                    entry, prev, call, disk >>
    /\ UNCHANGED collector_vars

\* every call parses a page the parser has not just parsed
Next ==
    \/ Construct
    \/ BeginParse
    \/ \E r \in RowIds : ParseRow(r)
    \/ Return
    \/ Finish

Spec == Init /\ [][Next]_vars

\* as Spec, and a page may be parsed a second time by the same parser
NextAgain ==
    \/ Next
    \/ ParseAgain
    \/ ReparseRow

SpecAgain == Init /\ [][NextAgain]_vars

(***************************************************************************)
(* Direct calls of single methods, on rows and blocks of every shape: one   *)
(* call on a newly constructed parser                                      *)
(***************************************************************************)
\* texts of the cell before the day slots, or of the merged cell
BlockLeadTexts ==
    { << >>, T_ARR,
      << "A", "r", "r", " ", "i", "n", " ", "a", "d", "d", "i", "t", "i", "o", "n", " ", "t", "o" >> }

\* texts of the first day slot
Day1Texts == { << >>, << "M", "W" >>, << "X" >>, << " ", "T", " " >> }

\* texts of the second day slot
Day3Texts == { << >>, << "R" >> }

\* texts of the last slot of the block
TimeTexts ==
    { << >>,
      << "9", ":", "0", "0", "a", "m", " ", "-", " ", "1", "0", ":", "5", "0", "a", "m" >>,
      << "9", ":", "0", "0", "-", "1", "0", ":", "5", "0", "-" >>,
      << "1", "0", ":", "0", "0", "-" >>,
      << "9", "0", "0", "-", "1", "0", "5", "0" >>,
      << "a", "r", "r" >> }

\* texts of the location cell
LocationTexts ==
    { << "A", "2", "0", "7" >>, T_OnlineASYNC,
      << "o", "n", "l", "i", "n", "e", " ", "s", "y", "n", "c" >>, T_Hybrid }

\* a section row of n cells with the given meeting-time cells and location
TestRow(n, colspan, lead, day1, day3, time, location) ==
    Row(Tds(n, "default1",
            (6 :> [Cell("default1", lead) EXCEPT !.colspan = colspan]
             @@ 7 :> Cell("default1", day1)
             @@ 9 :> Cell("default1", day3)
             @@ 13 :> Cell("default1", time)
             @@ 14 :> Cell("default1", location))
            @@ SectionCells("default1", << "7", "5", "0", "6", "5" >>)),
        FALSE)

TestRows ==
    { TestRow(n, colspan, lead, day1, day3, time, location) :
        n \in {15, 22}, colspan \in BOOLEAN, lead \in BlockLeadTexts, day1 \in Day1Texts,
        day3 \in Day3Texts, time \in TimeTexts, location \in LocationTexts }

\* the blocks handed to _parse_meeting_times directly: 0 to 8 cells
TestBlocks ==
    { SubSeq(<< lead, day1, << >>, day3, << >>, << >>, << >>, time >>, 1, n) :
        n \in 0..8, lead \in BlockLeadTexts, day1 \in Day1Texts,
        day3 \in Day3Texts, time \in TimeTexts }

\* the header contexts a row is parsed in
TestSubjects == { None, Some(<< "M", "A", "T", "H" >>) }

TestTitles == { None, Some(T_ACCT100_header), Some(<< "T", "o", "p", "i", "c", "s" >>) }

\* the last direct call was of this method
Called(method) == call # None /\ call[1].method = method

\* parser._parse_course_row(row) with the parser's header context set
CallParseCourseRow(row, subject, title) ==
    /\ pc = "idle"
    /\ call = None
    /\ call' = Some([method |-> "_parse_course_row", row |-> row,
                     current_subject |-> subject, current_course_title |-> title,
                     returned |-> _parse_course_row(row, subject, title)])
    /\ UNCHANGED << current_subject, current_course_title, pc, all_rows, pos, courses,
                    result, entry, prev, disk >>
    /\ UNCHANGED collector_vars

\* parser._parse_meeting_times(meeting_info, location)
CallParseMeetingTimes(meeting_info, location) ==
    /\ pc = "idle"
    /\ call = None
    /\ call' = Some([method |-> "_parse_meeting_times", meeting_info |-> meeting_info,
                     location |-> location,
                     returned |-> _parse_meeting_times(meeting_info, location)])
    /\ UNCHANGED << current_subject, current_course_title, pc, all_rows, pos, courses,
                    result, entry, prev, disk >>
    /\ UNCHANGED collector_vars

\* texts of a numeric cell: units, capacity, actual, remaining, weeks
NumberTexts ==
    { << >>, << "3", ".", "0" >>, << " ", " ", "4", ".", "0", " ", " " >>,
      << "i", "n", "v", "a", "l", "i", "d" >>, << "." >>, << "1", ".", "2", ".", "3" >>,
      << "-", "5" >>, << "0" >>, << "1", "2", " ", "w", "k", "s" >>, << ".", "5" >> }

\* full section rows with the given texts in the units cell and in the three
\* enrollment cells
NumericRows ==
    { Row(Tds(22, "default1",
              (5 :> Cell("default1", units)
               @@ 15 :> Cell("default1", seats)
               @@ 16 :> Cell("default1", seats)
               @@ 17 :> Cell("default1", seats))
              @@ SectionCells("default1", << "7", "5", "0", "6", "5" >>)),
          FALSE) :
        units \in NumberTexts, seats \in {<< "3", "0" >>, << "-", "5" >>, << "f", "u", "l", "l" >>} }

\* the first n cells of the section row, with the given text in the weeks cell
LengthRows ==
    { Row(Tds(n, "default1",
              (21 :> Cell("default1", weeks))
              @@ SectionCells("default1", << "7", "5", "0", "6", "5" >>)),
          FALSE) :
        n \in 15..22,
        weeks \in {<< >>, << "0" >>, << "8" >>, << "w", "k", "s" >>, << "1", "6" >>} }

\* location texts and meeting-time lists _determine_delivery_method is called with
DeliveryLocationTexts ==
    LocationTexts \cup
    { << >>, T_Online, << "O", "N", "L", "I", "N", "E", " ", "h", "y", "b", "r", "i", "d" >>,
      << "A", "s", "y", "n", "c" >>, << "H", "Y", "B", "R", "I", "D", " ", "l", "a", "b" >> }

DeliveryMeetingTimes ==
    LET scheduled == MeetingTime(<< "M", "W" >>, Some(<< "9", ":", "0", "0" >>),
                                 Some(<< "1", "0", ":", "5", "0" >>), FALSE)
        arranged == MeetingTime(T_TBA, None, None, TRUE)
    IN  { << >>, << scheduled >>, << arranged >>, << scheduled, arranged >> }

\* parser._determine_delivery_method(location, meeting_times)
CallDetermineDeliveryMethod(location, meeting_times) ==
    /\ pc = "idle"
    /\ call = None
    /\ call' = Some([method |-> "_determine_delivery_method", location |-> location,
                     meeting_times |-> meeting_times,
                     returned |-> _determine_delivery_method(location, meeting_times)])
    /\ UNCHANGED << current_subject, current_course_title, pc, all_rows, pos, courses,
                    result, entry, prev, disk >>
    /\ UNCHANGED collector_vars

\* parser._parse_units(units_text)
CallParseUnits(units_text) ==
    /\ pc = "idle"
    /\ call = None
    /\ call' = Some([method |-> "_parse_units", text |-> units_text,
                     returned |-> _parse_units(units_text)])
    /\ UNCHANGED << current_subject, current_course_title, pc, all_rows, pos, courses,
                    result, entry, prev, disk >>
    /\ UNCHANGED collector_vars

\* parser._parse_int(text)
CallParseInt(text) ==
    /\ pc = "idle"
    /\ call = None
    /\ call' = Some([method |-> "_parse_int", text |-> text,
                     returned |-> _parse_int(text)])
    /\ UNCHANGED << current_subject, current_course_title, pc, all_rows, pos, courses,
                    result, entry, prev, disk >>
    /\ UNCHANGED collector_vars

(***************************************************************************)
(* BaseCollector.validate_output                                           *)
(***************************************************************************)
\* required_fields of validate_output, in the order they are checked
required_fields ==
    << "term", "term_code", "collection_timestamp", "source_url", "college_id",
       "collector_version", "courses" >>

\* raise ValueError(message): the message as its literal and its argument
ValueError(literal, argument) ==
    Some([raised |-> "ValueError", message |-> << literal, argument >>])

\* data.model_dump() restricted to the required fields: each key with the
\* value of the attribute, Some(value), or None
model_dump(data) ==
    [f \in Range(required_fields) |-> Some(data[f])]

\* the least position of the set hits, 0 when it is empty
FirstOf(hits) ==
    IF hits = {} THEN 0 ELSE CHOOSE i \in hits : \A j \in hits : i <= j

\* validate_output(data) for the dumped attributes data_dict: None when it
\* returns, the ValueError when it raises
validate_output(data_dict) ==
    LET missing == FirstOf({i \in DOMAIN required_fields :
                              \/ required_fields[i] \notin DOMAIN data_dict
                              \/ data_dict[required_fields[i]] = None})
        list == data_dict["courses"][1]
        bad == FirstOf({i \in DOMAIN list : list[i].crn = << >> \/ list[i].subject = << >>})
    IN  IF missing # 0
        THEN ValueError("Missing required field: ", required_fields[missing])
        ELSE IF bad = 0 THEN None
        ELSE IF list[bad].crn = << >>
        THEN ValueError("Course at index {i} missing CRN", bad - 1)
        ELSE ValueError("Course {crn} missing subject", list[bad].crn)

\* a datetime without tzinfo, as datetime.now() gives: the text of its date and
\* time to the second, and its microsecond
Datetime(seconds, microsecond) == [seconds |-> seconds, microsecond |-> microsecond]

T_2025_08_01T12_00_00 ==
    << "2", "0", "2", "5", "-", "0", "8", "-", "0", "1", "T",
       "1", "2", ":", "0", "0", ":", "0", "0" >>

\* the Course of the section row under the header "ACCT 100 - Intro - I", and
\* the Course of the row of 15 cells without header
SampleCourse == _parse_course_row(PageRows[4], None, Some(T_ACCT100_header))[1]

OnlineCourse == _parse_course_row(PageRows[5], Some(<< "M", "A", "T", "H" >>), None)[1]

\* the ScheduleData objects validate_output is given: the sample of the tests
\* with an empty or a filled college_id and term, without and with Courses,
\* one without crn and one without subject, and with an attribute set to None
ValidateInputs ==
    { [model_dump(ScheduleData(term, "202570", Datetime(T_2025_08_01T12_00_00, 0),
                               "https://test.edu", college_id, "1.0.0", list,
                               None, None, None))
         EXCEPT ![unset] = IF unset = "collection_timestamp" THEN @ ELSE None] :
        term \in {"", "Fall 2025"}, college_id \in {"", "rio-hondo"},
        list \in { << >>, << SampleCourse >>,
                   << SampleCourse, [OnlineCourse EXCEPT !.crn = << >>] >>,
                   << [SampleCourse EXCEPT !.subject = << >>], OnlineCourse >> },
        unset \in {"collection_timestamp", "source_url", "collector_version"} }

\* collector.validate_output(data)
CallValidateOutput(data_dict) ==
    /\ pc = "idle"
    /\ call = None
    /\ call' = Some([method |-> "validate_output", data_dict |-> data_dict,
                     returned |-> validate_output(data_dict)])
    /\ UNCHANGED << current_subject, current_course_title, pc, all_rows, pos, courses,
                    result, entry, prev, disk >>
    /\ UNCHANGED collector_vars

(***************************************************************************)
(* ScheduleStorage: save_schedule and load_schedule                        *)
(***************************************************************************)
\* the decimal digits of n
RECURSIVE IntToDigits(_)
IntToDigits(n) ==
    IF n < 10 THEN << DigitChars[n + 1] >>
    ELSE Append(IntToDigits(n \div 10), DigitChars[(n % 10) + 1])

\* the digits of n on at least width places, zeros in front
RECURSIVE ZeroPad(_, _)
ZeroPad(digits, width) ==
    IF Len(digits) >= width THEN digits ELSE ZeroPad(<< "0" >> \o digits, width)

\* the JSON text of a datetime whose fraction is written without its leading
\* zeros
IsoformatUnpadded(dt) ==
    IF dt.microsecond = 0 THEN dt.seconds
    ELSE dt.seconds \o << "." >> \o IntToDigits(dt.microsecond)

\* the JSON text of a datetime: YYYY-MM-DDTHH:MM:SS, followed by .ffffff when
\* the microsecond is not 0
isoformat(dt) ==
    IF dt.microsecond = 0 THEN dt.seconds
    ELSE dt.seconds \o << "." >> \o ZeroPad(IntToDigits(dt.microsecond), 6)

\* datetime.fromisoformat(text): the digits after the point are a fraction of
\* a second
fromisoformat(text) ==
    LET fraction == IF Len(text) > 20 THEN SubSeq(text, 21, Len(text)) ELSE << >>
    IN  Datetime(SubSeq(text, 1, 19),
                 IF fraction = << >> THEN 0
                 ELSE DigitsToInt(fraction) * Pow10(6 - Len(fraction)))

\* the JSON text of a float: repr, with at least one digit after the point
FloatRepr(x) ==
    LET places == Len(IntToDigits(x.den)) - 1
    IN  IntToDigits(x.num \div x.den) \o << "." >>
        \o (IF places = 0 THEN << "0" >>
            ELSE ZeroPad(IntToDigits(x.num % x.den), places))

\* the float of a JSON number text
FloatOfRepr(text) ==
    LET p == Find(text, << "." >>)
        whole == SubSeq(text, 1, p - 1)
        frac == DropTrailingZeros(SubSeq(text, p + 1, Len(text)))
    IN  Float(DigitsToInt(whole \o frac), Pow10(Len(frac)))

\* schedule_data.model_dump(mode='json') as json.dump writes it: the datetime
\* and the floats as their JSON texts, everything else as it is
model_dump_json(schedule_data) ==
    [schedule_data EXCEPT
        !.collection_timestamp = isoformat(@),
        !.courses = [i \in DOMAIN @ |-> [@[i] EXCEPT !.units = FloatRepr(@)]]]

\* json.load of the file: the floats are numbers again, the datetime is still
\* a text
json_load(text) ==
    [text EXCEPT !.courses = [i \in DOMAIN @ |-> [@[i] EXCEPT !.units = FloatOfRepr(@)]]]

\* the extension save_schedule adds for the compression setting
CompressionSuffix(compression) ==
    IF compression = "gzip" THEN << ".gz" >>
    ELSE IF compression = "bzip2" THEN << ".bz2" >>
    ELSE << >>

\* how the bytes of the file are encoded by the open() the setting selects
SaveCodec(compression) ==
    IF compression = "gzip" THEN "gzip"
    ELSE IF compression = "bzip2" THEN "bz2"
    ELSE "plain"

\* the open() load_schedule selects for filepath.suffix, the last extension
LoadCodec(filepath) ==
    LET suffix == filepath[Len(filepath)]
    IN  IF suffix = ".gz" THEN "gzip"
        ELSE IF suffix = ".bz2" THEN "bz2"
        ELSE "plain"

\* save_schedule(schedule_data) with the default filename pattern: the file
\* it writes; timestamp is datetime.now() formatted for the name
save_schedule(schedule_data, compression, timestamp) ==
    [filepath |-> << "schedule_", schedule_data.term_code, "_", timestamp, ".json" >>
                  \o CompressionSuffix(compression),
     codec |-> SaveCodec(compression),
     text |-> model_dump_json(schedule_data)]

\* load_schedule(filepath) of the file: the ScheduleData, or the exception of
\* an open() that cannot read the bytes
load_schedule(file) ==
    IF LoadCodec(file.filepath) # file.codec
    THEN [raised |-> "Exception"]
    ELSE LET data == json_load(file.text)
         IN  ScheduleData(data.term, data.term_code,
                          fromisoformat(data.collection_timestamp),
                          data.source_url, data.college_id, data.collector_version,
                          data.courses, Some(data.metadata),
                          data.total_courses, data.departments)

\* the ScheduleData objects that are saved: with and without microseconds,
\* without and with Courses, constructed with and without the deprecated
\* arguments and a metadata dict
StorageInputs ==
    { ScheduleData("Fall 2025", "202570", Datetime(T_2025_08_01T12_00_00, microsecond),
                   "https://example.com", "rio_hondo", "1.0.0", list,
                   metadata, deprecated[1], deprecated[2]) :
        microsecond \in {0, 1234},
        list \in { << >>, << SampleCourse >>, << OnlineCourse, SampleCourse >> },
        metadata \in { None, Some([note |-> "manual"]) },
        deprecated \in { << None, None >>, << Some(0), Some(<< >>) >>,
                         << Some(5), Some(<< << "Z", "Z" >> >>) >> } }

\* storage.save_schedule(schedule_data), storage a ScheduleStorage with the
\* given compression setting
SaveSchedule(schedule_data, compression) ==
    /\ pc = "idle"
    /\ call = None
    /\ disk = None
    /\ disk' = Some(save_schedule(schedule_data, compression, "20250801_120000"))
    /\ call' = Some([method |-> "save_schedule", schedule_data |-> schedule_data,
                     compression |-> compression,
                     returned |-> disk'[1].filepath])
    /\ UNCHANGED << current_subject, current_course_title, pc, all_rows, pos, courses,
                    result, entry, prev >>
    /\ UNCHANGED collector_vars

\* storage.load_schedule(filepath), filepath what save_schedule just returned
LoadSchedule ==
    /\ Called("save_schedule")
    /\ disk # None
    /\ call' = Some([method |-> "load_schedule", filepath |-> call[1].returned,
                     returned |-> load_schedule(disk[1])])
    /\ UNCHANGED << current_subject, current_course_title, pc, all_rows, pos, courses,
                    result, entry, prev, disk >>
    /\ UNCHANGED collector_vars

NextCalls ==
    \/ \E row \in TestRows \cup NumericRows \cup LengthRows,
          subject \in TestSubjects, title \in TestTitles :
          CallParseCourseRow(row, subject, title)
    \/ \E meeting_info \in TestBlocks, location \in LocationTexts :
          CallParseMeetingTimes(meeting_info, location)
    \/ \E location \in DeliveryLocationTexts, meeting_times \in DeliveryMeetingTimes :
          CallDetermineDeliveryMethod(location, meeting_times)
    \/ \E text \in NumberTexts : CallParseUnits(text)
    \/ \E text \in NumberTexts : CallParseInt(text)
    \/ \E data_dict \in ValidateInputs : CallValidateOutput(data_dict)
    \/ \E schedule_data \in StorageInputs, compression \in {"none", "gzip", "bzip2"} :
          SaveSchedule(schedule_data, compression)
    \/ LoadSchedule

SpecCalls == Init /\ [][NextCalls]_vars

(***************************************************************************)
(* RioHondoCollector._fetch_schedule_page: the retry loop of lines 226-250  *)
(***************************************************************************)
MaxRetryAttempts == 3

\* the values of config['rate_limit']['retry_attempts']
RetryAttempts == 0 .. MaxRetryAttempts

\* the texts a response carries: pages, as the ids of their rows
ResponseTexts == { << 1, 4 >>, << 2, 4 >> }

\* what self.session.post(...) does: it raises a RequestException, or it returns a
\* response with a status code and a text
RequestException(name) == [raised |-> Some(name), status_code |-> 0, text |-> << >>]

Response(status_code, text) == [raised |-> None, status_code |-> status_code, text |-> text]

PostOutcomes ==
    { RequestException("ConnectionError"), RequestException("Timeout"),
      Response(503, << >>) }
    \cup { Response(200, text) : text \in ResponseTexts }

\* one thing the collector did: op is "post", "sleep" or "rate_limit_delay"
Event(op, attempt, arg) == [op |-> op, attempt |-> attempt, arg |-> arg]

\* the wait of one second per attempt made so far
BackoffLinear(attempt) == 2 * attempt

\* 2 ** attempt
Backoff(attempt) == 2 ^ attempt

\* what returned or raised
Returned(value) == Some([kind |-> "returned", value |-> value])

Raised(e) == Some([kind |-> "raised", value |-> e])

\* _fetch_schedule_page(url, term_code, subject) is called: lines 166-227
CallFetchSchedulePage(retry_attempts, subject) ==
    /\ cpc = "idle"
    /\ outcome = None
    /\ cpc' = "for attempt"
    /\ local' = [method |-> "_fetch_schedule_page", subject |-> subject,
                 max_retries |-> retry_attempts, attempt |-> 0,
                 response |-> Response(0, << >>), e |-> ""]
    /\ log' = << >>
    /\ UNCHANGED << outcome, collection_metadata >>
    /\ UNCHANGED parser_vars
    /\ UNCHANGED files

\* lines 229-237: range(max_retries) has a next attempt and the request is sent
Post(o) ==
    /\ cpc = "for attempt"
    /\ local.method = "_fetch_schedule_page"
    /\ local.attempt < local.max_retries
    /\ log' = Append(log, Event("post", local.attempt, o))
    /\ IF o.raised # None
       THEN /\ local' = [local EXCEPT !.e = o.raised[1]]
            /\ cpc' = "except RequestException"
       ELSE /\ local' = [local EXCEPT !.response = o]
            /\ cpc' = "raise_for_status"
    /\ UNCHANGED << outcome, collection_metadata >>
    /\ UNCHANGED parser_vars
    /\ UNCHANGED files

\* line 238: response.raise_for_status()
RaiseForStatus ==
    /\ cpc = "raise_for_status"
    /\ IF local.response.status_code >= 400
       THEN /\ local' = [local EXCEPT !.e = "HTTPError"]
            /\ cpc' = "except RequestException"
       ELSE /\ cpc' = "rate_limit_delay"
            /\ UNCHANGED local
    /\ UNCHANGED << log, outcome, collection_metadata >>
    /\ UNCHANGED parser_vars
    /\ UNCHANGED files

\* lines 241-243: self.rate_limit_delay(), then return response.text
ReturnResponseText ==
    /\ cpc = "rate_limit_delay"
    /\ log' = Append(log, Event("rate_limit_delay", local.attempt, 0))
    /\ outcome' = Returned(Some(local.response.text))
    /\ cpc' = "done"
    /\ UNCHANGED << local, collection_metadata >>
    /\ UNCHANGED parser_vars
    /\ UNCHANGED files

\* lines 245-250: the handler of the RequestException of this attempt
ExceptRequestException ==
    /\ cpc = "except RequestException"
    /\ IF local.attempt < local.max_retries - 1
       THEN /\ log' = Append(log, Event("sleep", local.attempt, Backoff(local.attempt)))
            /\ local' = [local EXCEPT !.attempt = local.attempt + 1]
            /\ cpc' = "for attempt"
            /\ UNCHANGED outcome
       ELSE /\ outcome' = Raised(local.e)
            /\ cpc' = "done"
            /\ UNCHANGED << local, log >>
    /\ UNCHANGED collection_metadata
    /\ UNCHANGED parser_vars
    /\ UNCHANGED files

\* range(max_retries) is exhausted with no return and no raise: the function
\* ends after the loop (line 250 is its last statement) and returns None
FallOffTheLoop ==
    /\ cpc = "for attempt"
    /\ local.method = "_fetch_schedule_page"
    /\ local.attempt >= local.max_retries
    /\ outcome' = Returned(None)
    /\ cpc' = "done"
    /\ UNCHANGED << local, log, collection_metadata >>
    /\ UNCHANGED parser_vars
    /\ UNCHANGED files

NextFetch ==
    \/ \E retry_attempts \in RetryAttempts, subject \in {"ALL", "MATH"} :
          CallFetchSchedulePage(retry_attempts, subject)
    \/ \E o \in PostOutcomes : Post(o)
    \/ RaiseForStatus
    \/ ReturnResponseText
    \/ ExceptRequestException
    \/ FallOffTheLoop

SpecFetch == Init /\ [][NextFetch]_vars

(***************************************************************************)
(* BaseCollector.collect and its override RioHondoCollector.collect         *)
(***************************************************************************)
MaxRuns == 2

\* what parse_data or collect_all_departments_with_details returns: the
\* aggregate without and with Courses, and with a Course that has no crn
CollectedSchedules ==
    { ScheduleData("Fall 2025", "202570", Datetime(T_2025_08_01T12_00_00, 0),
                   "https://example.com", "rio-hondo", "1.0.0", list,
                   None, None, None) :
        list \in { << >>, << SampleCourse >>,
                   << SampleCourse, [OnlineCourse EXCEPT !.crn = << >>] >> } }

\* the steps of BaseCollector.collect, in the order of lines 108-124
Steps == << "fetch_data", "parse_data", "validate_output", "save_output" >>

\* the step that follows a step that succeeded, with save_output whatever save is
NextStepSavingAlways(step, save) ==
    IF step = "fetch_data" THEN "parse_data"
    ELSE IF step = "parse_data" THEN "validate_output"
    ELSE IF step = "validate_output" THEN "save_output"
    ELSE "finally"

\* the step that follows a step that succeeded: lines 108-124
NextStep(step, save) ==
    IF step = "fetch_data" THEN "parse_data"
    ELSE IF step = "parse_data" THEN "validate_output"
    ELSE IF step = "validate_output" /\ save THEN "save_output"
    ELSE "finally"

\* the start_time of the last run that recorded its metadata, 0 before
LastStart == IF collection_metadata = None THEN 0 ELSE collection_metadata[1].start_time

\* the metadata of a run that is recorded as successful whatever its errors
RecordMetadataAlwaysSuccessful(l) ==
    Some([start_time |-> l.start_time,
          courses_collected |-> IF l.schedule_data # None
                                THEN Len(l.schedule_data[1].courses) ELSE 0,
          errors |-> l.errors,
          success |-> TRUE])

\* lines 131-141: the CollectionMetadata of the run whose locals are l; the two
\* clock readings are kept as the start_time alone
RecordMetadata(l) ==
    Some([start_time |-> l.start_time,
          courses_collected |-> IF l.schedule_data # None
                                THEN Len(l.schedule_data[1].courses) ELSE 0,
          errors |-> l.errors,
          success |-> Len(l.errors) = 0])

\* collect(term_code, save) of a collector that does not override it is
\* called at time now: lines 102-103
CallCollect(save, now) ==
    /\ cpc = "idle"
    /\ outcome = None
    /\ now > LastStart
    /\ cpc' = "fetch_data"
    /\ local' = [method |-> "BaseCollector.collect", save |-> save, start_time |-> now,
                 errors |-> << >>, schedule_data |-> None, e |-> ""]
    /\ log' = << >>
    /\ UNCHANGED << outcome, collection_metadata >>
    /\ UNCHANGED parser_vars
    /\ UNCHANGED files

\* one step has raised e: the handler of lines 126-129 appends str(e) to errors
\* and raises it again, which leads to the finally block
ExceptException(l, e) == [l EXCEPT !.errors = Append(@, e), !.e = e]

\* line 108: raw_data = self.fetch_data(term_code)
FetchData(raised) ==
    /\ cpc = "fetch_data"
    /\ log' = Append(log, Event("fetch_data", local.start_time, raised))
    /\ IF raised = "ok"
       THEN cpc' = NextStep("fetch_data", local.save) /\ UNCHANGED local
       ELSE cpc' = "finally" /\ local' = ExceptException(local, raised)
    /\ UNCHANGED << outcome, collection_metadata >>
    /\ UNCHANGED parser_vars
    /\ UNCHANGED files

\* line 112 raises
ParseDataRaises ==
    /\ cpc = "parse_data"
    /\ log' = Append(log, Event("parse_data", local.start_time, "TypeError"))
    /\ cpc' = "finally"
    /\ local' = ExceptException(local, "TypeError")
    /\ UNCHANGED << outcome, collection_metadata >>
    /\ UNCHANGED parser_vars
    /\ UNCHANGED files

\* lines 112-116: schedule_data = self.parse_data(raw_data, term_code), and the
\* two attributes of the collector are written into it
ParseData(schedule_data, college_id) ==
    /\ cpc = "parse_data"
    /\ log' = Append(log, Event("parse_data", local.start_time, "ok"))
    /\ cpc' = NextStep("parse_data", local.save)
    /\ local' = [local EXCEPT !.schedule_data =
                     Some([schedule_data EXCEPT !.college_id = college_id,
                                                !.collector_version = "1.0.0"])]
    /\ UNCHANGED << outcome, collection_metadata >>
    /\ UNCHANGED parser_vars
    /\ UNCHANGED files

\* line 120: self.validate_output(schedule_data)
ValidateOutput ==
    /\ cpc = "validate_output"
    /\ LET raised == validate_output(model_dump(local.schedule_data[1]))
       IN  IF raised = None
           THEN /\ log' = Append(log, Event("validate_output", local.start_time, "ok"))
                /\ cpc' = NextStep("validate_output", local.save)
                /\ UNCHANGED local
           ELSE /\ log' = Append(log, Event("validate_output", local.start_time,
                                            "ValueError"))
                /\ cpc' = "finally"
                /\ local' = ExceptException(local, "ValueError")
    /\ UNCHANGED << outcome, collection_metadata >>
    /\ UNCHANGED parser_vars
    /\ UNCHANGED files

\* lines 123-124: self.save_output(schedule_data)
SaveOutput(raised) ==
    /\ cpc = "save_output"
    /\ local.method = "BaseCollector.collect"
    /\ log' = Append(log, Event("save_output", local.start_time, raised))
    /\ cpc' = "finally"
    /\ IF raised = "ok" THEN UNCHANGED local
       ELSE local' = ExceptException(local, raised)
    /\ UNCHANGED << outcome, collection_metadata >>
    /\ UNCHANGED parser_vars
    /\ UNCHANGED files

\* lines 131-143: the metadata is recorded, then the exception leaves collect or
\* schedule_data is returned
Finally ==
    /\ cpc = "finally"
    /\ collection_metadata' = RecordMetadata(local)
    /\ outcome' = IF local.e # "" THEN Raised(local.e)
                  ELSE Returned(local.schedule_data[1])
    /\ cpc' = "done"
    /\ UNCHANGED << local, log >>
    /\ UNCHANGED parser_vars
    /\ UNCHANGED files

\* RioHondoCollector.collect(term_code, save) is called: line 460
CallRioHondoCollect(save, compression) ==
    /\ cpc = "idle"
    /\ outcome = None
    /\ cpc' = "collect_all_departments_with_details"
    /\ local' = [method |-> "RioHondoCollector.collect", save |-> save,
                 compression |-> compression, start_time |-> LastStart + 1,
                 schedule_data |-> None]
    /\ log' = << >>
    /\ UNCHANGED << outcome, collection_metadata >>
    /\ UNCHANGED parser_vars
    /\ UNCHANGED files

\* line 471 raises: the exception leaves collect
CollectAllDepartmentsWithDetailsRaises ==
    /\ cpc = "collect_all_departments_with_details"
    /\ log' = Append(log, Event("collect_all_departments_with_details",
                                local.start_time, "RequestException"))
    /\ outcome' = Raised("RequestException")
    /\ cpc' = "done"
    /\ UNCHANGED << local, collection_metadata >>
    /\ UNCHANGED parser_vars
    /\ UNCHANGED files

\* line 471: schedule_data = self.collect_all_departments_with_details(term_code)
CollectAllDepartmentsWithDetails(schedule_data) ==
    /\ cpc = "collect_all_departments_with_details"
    /\ log' = Append(log, Event("collect_all_departments_with_details",
                                local.start_time, "ok"))
    /\ local' = [local EXCEPT !.schedule_data = Some(schedule_data)]
    /\ cpc' = IF local.save THEN "save_schedule" ELSE "return"
    /\ UNCHANGED << outcome, collection_metadata >>
    /\ UNCHANGED parser_vars
    /\ UNCHANGED files

\* lines 474-480: storage.save_schedule(schedule_data) of a new ScheduleStorage
StorageSaveSchedule ==
    /\ cpc = "save_schedule"
    /\ log' = Append(log, Event("save_schedule", local.start_time, "ok"))
    /\ disk' = Some(save_schedule(local.schedule_data[1], local.compression,
                                  "20250801_120000"))
    /\ cpc' = "return"
    /\ UNCHANGED << local, outcome, collection_metadata >>
    /\ UNCHANGED << current_subject, current_course_title, pc, all_rows, pos, courses,
                    result, entry, prev, call >>
    /\ UNCHANGED files

\* line 482: return schedule_data
ReturnScheduleData ==
    /\ cpc = "return"
    /\ outcome' = Returned(local.schedule_data[1])
    /\ cpc' = "done"
    /\ UNCHANGED << local, log, collection_metadata >>
    /\ UNCHANGED parser_vars
    /\ UNCHANGED files

\* the caller has the result or the exception; the collector is kept for the
\* next run and the files of the run are put away
NextRun ==
    /\ cpc = "done"
    /\ local.method \in {"BaseCollector.collect", "RioHondoCollector.collect"}
    /\ local.start_time < MaxRuns
    /\ cpc' = "idle"
    /\ outcome' = None
    /\ local' = [method |-> "idle"]
    /\ log' = << >>
    /\ disk' = None
    /\ UNCHANGED collection_metadata
    /\ UNCHANGED << current_subject, current_course_title, pc, all_rows, pos, courses,
                    result, entry, prev, call >>
    /\ UNCHANGED files

NextCollect ==
    \/ \E save \in BOOLEAN, now \in 1 .. MaxRuns : CallCollect(save, now)
    \/ \E raised \in {"ok", "RequestException"} : FetchData(raised)
    \/ ParseDataRaises
    \/ \E schedule_data \in CollectedSchedules, college_id \in {"rio-hondo", "test-college"} :
          ParseData(schedule_data, college_id)
    \/ ValidateOutput
    \/ \E raised \in {"ok", "OSError"} : SaveOutput(raised)
    \/ Finally
    \/ \E save \in BOOLEAN, compression \in {"none", "gzip"} :
          CallRioHondoCollect(save, compression)
    \/ CollectAllDepartmentsWithDetailsRaises
    \/ \E schedule_data \in CollectedSchedules : CollectAllDepartmentsWithDetails(schedule_data)
    \/ StorageSaveSchedule
    \/ ReturnScheduleData
    \/ NextRun

SpecCollect == Init /\ [][NextCollect]_vars

(***************************************************************************)
(* RioHondoCollector.collect_all_departments                                *)
(***************************************************************************)
MaxDepartments == 3

\* the values of config['departments']: the selector ALL, or a list of codes
DepartmentLists ==
    { << "ALL" >> }
    \cup { SubSeq(<< "ACCT", "ENGL", "MATH", "PHIL" >>, 1, n) : n \in 1 .. MaxDepartments }

\* the pages the site answers with, as the ids of their rows: a subject header
\* and a section, a section alone, a course header followed by a header whose
\* cells cannot be read, a course header and the row without link, a course
\* header and two sections of which the second cannot be read
DepartmentPages == { << 1, 4 >>, << 4 >>, << 2, 10 >>, << 3, 5 >>, << 2, 4, 9 >> }

\* what _fetch_schedule_page does for one department
FetchOutcomes ==
    { RequestException("ConnectionError") }
    \cup { Response(200, text) : text \in DepartmentPages }

\* f"Failed to collect {dept}: {str(e)}"
error_msg(dept, e) == << "Failed to collect ", dept, ": ", e >>

\* collect_all_departments(term_code) is called: lines 297-311
CallCollectAllDepartments(departments) ==
    /\ cpc = "idle"
    /\ outcome = None
    /\ pc = "idle"
    /\ cpc' = "for dept"
    /\ local' = [method |-> "collect_all_departments", departments |-> departments,
                 done |-> 0, all_courses |-> << >>, errors |-> << >>]
    /\ log' = << >>
    /\ UNCHANGED << outcome, collection_metadata >>
    /\ UNCHANGED parser_vars
    /\ UNCHANGED files

\* line 315, or line 328 in one iteration of the loop over the departments:
\* the request of the page.  When it raises, the handler of lines 337-340
\* records the department, and with the selector ALL the exception leaves the
\* method; otherwise self.parser.parse_schedule_html starts on the page with
\* the header context the parser has (parser.py lines 24-28)
FetchDepartment(o) ==
    /\ cpc = "for dept"
    /\ local.done < Len(local.departments)
    /\ LET dept == local.departments[local.done + 1]
       IN  IF o.raised # None
           THEN /\ log' = Append(log, Event("failed", dept, o))
                /\ IF dept = "ALL"
                   THEN /\ outcome' = Raised(o.raised[1])
                        /\ cpc' = "done"
                        /\ UNCHANGED local
                   ELSE /\ local' = [local EXCEPT !.done = @ + 1,
                                         !.errors = Append(@, error_msg(dept, o.raised[1]))]
                        /\ UNCHANGED << cpc, outcome >>
                /\ UNCHANGED << pc, all_rows, pos, courses >>
           ELSE /\ log' = Append(log, Event("fetched", dept, o))
                /\ cpc' = "parse_schedule_html"
                /\ pc' = "parsing"
                /\ all_rows' = o.text
                /\ pos' = 0
                /\ courses' = << >>
                /\ UNCHANGED << local, outcome >>
    /\ UNCHANGED << current_subject, current_course_title, result, entry, prev, call,
                    disk, collection_metadata, files >>

\* one iteration of the loop of parse_schedule_html on the page of the department
ParseDepartmentRow ==
    /\ cpc = "parse_schedule_html"
    /\ pc = "parsing"
    /\ pos < Len(all_rows)
    /\ LoopBody(all_rows[pos + 1])
    /\ UNCHANGED << all_rows, result, entry, prev, call, disk >>
    /\ UNCHANGED collector_vars

\* parse_schedule_html has returned: lines 322 and 335
DepartmentParsed ==
    /\ cpc = "parse_schedule_html"
    /\ pc = "parsing"
    /\ pos = Len(all_rows)
    /\ LET dept == local.departments[local.done + 1]
       IN  /\ log' = Append(log, Event("collected", dept, all_rows))
           /\ local' = [local EXCEPT !.done = @ + 1,
                                     !.all_courses = IF dept = "ALL" THEN courses
                                                     ELSE @ \o courses]
    /\ cpc' = "for dept"
    /\ pc' = "idle"
    /\ all_rows' = << >>
    /\ pos' = 0
    /\ courses' = << >>
    /\ UNCHANGED << current_subject, current_course_title, result, entry, prev, call,
                    disk, outcome, collection_metadata, files >>

\* parse_schedule_html has raised: the handler of lines 337-340 records the
\* department, and with the selector ALL the exception leaves the method
DepartmentRaised ==
    /\ cpc = "parse_schedule_html"
    /\ pc = "raised"
    /\ LET dept == local.departments[local.done + 1]
       IN  /\ log' = Append(log, Event("failed", dept, all_rows))
           /\ IF dept = "ALL"
              THEN /\ outcome' = Raised("Exception")
                   /\ cpc' = "done"
                   /\ UNCHANGED local
              ELSE /\ local' = [local EXCEPT !.done = @ + 1,
                                    !.errors = Append(@, error_msg(dept, "Exception"))]
                   /\ cpc' = "for dept"
                   /\ UNCHANGED outcome
    /\ pc' = "idle"
    /\ all_rows' = << >>
    /\ pos' = 0
    /\ courses' = << >>
    /\ UNCHANGED << current_subject, current_course_title, result, entry, prev, call,
                    disk, collection_metadata, files >>

\* lines 343-358: the combined ScheduleData is built and returned
ReturnCombined ==
    /\ cpc = "for dept"
    /\ local.done = Len(local.departments)
    /\ outcome' = Returned(ScheduleData(
           "Fall 2025", "202570", Datetime(T_2025_08_01T12_00_00, 0),
           "https://example.com", "rio-hondo", "1.0.0", local.all_courses,
           Some([total_courses |-> Len(local.all_courses),
                 departments |-> Departments(local.all_courses),
                 collection_errors |-> IF local.errors # << >>
                                       THEN Some(local.errors) ELSE None]),
           None, None))
    /\ cpc' = "done"
    /\ UNCHANGED << local, log, collection_metadata >>
    /\ UNCHANGED parser_vars
    /\ UNCHANGED files

NextDepartments ==
    \/ \E departments \in DepartmentLists : CallCollectAllDepartments(departments)
    \/ \E o \in FetchOutcomes : FetchDepartment(o)
    \/ ParseDepartmentRow
    \/ DepartmentParsed
    \/ DepartmentRaised
    \/ ReturnCombined

SpecDepartments == Init /\ [][NextDepartments]_vars

(***************************************************************************)
(* RioHondoCollector.collect_course_details                                 *)
(***************************************************************************)
MaxCourses == 3

\* the Courses of a schedule, each with its own crn
ScheduleCourses ==
    << SampleCourse, OnlineCourse,
       [SampleCourse EXCEPT !.crn = << "7", "5", "0", "6", "9" >>],
       [OnlineCourse EXCEPT !.crn = << "7", "5", "0", "7", "0" >>] >>

\* the lists of Courses whose details are collected
CourseLists == { SubSeq(ScheduleCourses, 1, n) : n \in 0 .. MaxCourses }

\* DetailedCourse(**course.model_dump(), detail_fetched_at=...): the record of
\* the Course with the attribute of the detail page, None without details
DetailedCourse(course, detail_fetched_at) ==
    [f \in DOMAIN course \cup {"detail_fetched_at"} |->
        IF f = "detail_fetched_at" THEN detail_fetched_at ELSE course[f]]

\* self.parser.parse_course_detail(response.text, course) when it returns
parse_course_detail(course) == DetailedCourse(course, Some("datetime.now()"))

\* collect_course_details(courses, term_code, batch_size, detail_delay) is
\* called: lines 375-382
CallCollectCourseDetails(list, batch_size, detail_delay) ==
    /\ cpc = "idle"
    /\ outcome = None
    /\ cpc' = "for course"
    /\ local' = [method |-> "collect_course_details", courses |-> list,
                 batch_size |-> batch_size, detail_delay |-> detail_delay,
                 i |-> 0, detailed_courses |-> << >>]
    /\ log' = << >>
    /\ UNCHANGED << outcome, collection_metadata >>
    /\ UNCHANGED parser_vars
    /\ UNCHANGED files

\* lines 384-412, one iteration of the loop: the request of the detail page
\* raises, or its parse raises, or the DetailedCourse is appended; then the
\* progress test divides by batch_size and the delay follows when the course
\* is not the last; whatever is raised in the try block, the handler appends a
\* copy of the Course without details
CollectCourseDetail(o) ==
    /\ cpc = "for course"
    /\ local.method = "collect_course_details"
    /\ local.i < Len(local.courses)
    /\ LET course == local.courses[local.i + 1]
           total == Len(local.courses)
           got == Append(log, Event("get", local.i, o))
           copy == DetailedCourse(course, None)
       IN  IF o # "ok"
           THEN /\ log' = got
                /\ local' = [local EXCEPT !.i = @ + 1,
                                          !.detailed_courses = Append(@, copy)]
           ELSE IF local.batch_size = 0
           THEN /\ log' = got
                /\ local' = [local EXCEPT !.i = @ + 1,
                                !.detailed_courses =
                                    Append(Append(@, parse_course_detail(course)), copy)]
           ELSE /\ log' = IF local.i < total - 1
                          THEN Append(got, Event("sleep", local.i, local.detail_delay))
                          ELSE got
                /\ local' = [local EXCEPT !.i = @ + 1,
                                !.detailed_courses = Append(@, parse_course_detail(course))]
    /\ UNCHANGED << cpc, outcome, collection_metadata >>
    /\ UNCHANGED parser_vars
    /\ UNCHANGED files

\* line 414: return detailed_courses
ReturnDetailedCourses ==
    /\ cpc = "for course"
    /\ local.method = "collect_course_details"
    /\ local.i = Len(local.courses)
    /\ outcome' = Returned(local.detailed_courses)
    /\ cpc' = "done"
    /\ UNCHANGED << local, log, collection_metadata >>
    /\ UNCHANGED parser_vars
    /\ UNCHANGED files

NextDetails ==
    \/ \E list \in CourseLists, batch_size \in {0, 1, 2, 50}, detail_delay \in {0, 1} :
          CallCollectCourseDetails(list, batch_size, detail_delay)
    \/ \E o \in {"ok", "RequestException", "AttributeError"} : CollectCourseDetail(o)
    \/ ReturnDetailedCourses

SpecDetails == Init /\ [][NextDetails]_vars

(***************************************************************************)
(* scripts/collect_details.py: DetailCollector                              *)
(***************************************************************************)
MaxInterrupts == 1

\* lines 120-125: the entries of the partial results as they are read back
ExistingCourses(partial) ==
    [i \in DOMAIN partial |->
        IF "detail_fetched_at" \in DOMAIN partial[i]
        THEN DetailedCourse([f \in DOMAIN partial[i] \ {"detail_fetched_at"} |-> partial[i][f]],
                            partial[i].detail_fetched_at)
        ELSE partial[i]]

\* how many times a run was interrupted
Interrupts == Cardinality({i \in DOMAIN log : log[i].op = "interrupted"})

\* collect_details_for_schedule(schedule_file, resume) is called on the schedule
\* file with the Courses list: lines 78-125, 178-210 when nothing is left to do
CallCollectDetailsForSchedule(list, resume, batch_size) ==
    /\ cpc = "idle"
    /\ outcome = None
    /\ files.schedule \in {None, Some(list)}
    /\ LET progress == IF resume /\ files.progress # None THEN files.progress[1]
                       ELSE [completed_crns |-> {}, output_file |-> ""]
           courses_to_process ==
               SelectSeq(list, LAMBDA c : c.crn \notin progress.completed_crns)
           detailed_courses ==
               IF resume /\ progress.output_file # "" /\ files.partial # None
               THEN ExistingCourses(files.partial[1]) ELSE << >>
       IN  /\ local' = [method |-> "collect_details_for_schedule", resume |-> resume,
                        batch_size |-> batch_size,
                        courses_to_process |-> courses_to_process, i |-> 0,
                        detailed_courses |-> detailed_courses,
                        completed_crns |-> progress.completed_crns]
           /\ IF courses_to_process = << >>
              THEN /\ outcome' = Returned(progress.output_file)
                   /\ cpc' = "done"
              ELSE /\ cpc' = "for course"
                   /\ UNCHANGED outcome
    /\ files' = [files EXCEPT !.schedule = Some(list)]
    /\ log' = Append(log, Event("run", Interrupts, resume))
    /\ UNCHANGED collection_metadata
    /\ UNCHANGED parser_vars

\* lines 142-167, one iteration up to the periodic save: the entry of the
\* course is what collect_course_details([course], ..., batch_size=1,
\* detail_delay=0) returns, with or without details
ProcessCourse(o) ==
    /\ cpc = "for course"
    /\ local.method = "collect_details_for_schedule"
    /\ local.i < Len(local.courses_to_process)
    /\ LET course == local.courses_to_process[local.i + 1]
           detailed == IF o = "ok" THEN parse_course_detail(course)
                       ELSE DetailedCourse(course, None)
           saves == (local.i + 1) % local.batch_size = 0
       IN  /\ local' = [local EXCEPT !.detailed_courses = Append(@, detailed),
                                     !.completed_crns = @ \cup {course.crn},
                                     !.i = IF saves THEN @ ELSE @ + 1]
           /\ cpc' = IF saves THEN "save_progress" ELSE "for course"
    /\ UNCHANGED << log, outcome, collection_metadata, files >>
    /\ UNCHANGED parser_vars

\* _save_intermediate_results, lines 216-222: the progress file is written
SaveProgress ==
    /\ cpc = "save_progress"
    /\ files' = [files EXCEPT !.progress =
                     Some([completed_crns |-> local.completed_crns,
                           output_file |-> "partial"])]
    /\ cpc' = "save_partial"
    /\ UNCHANGED << local, log, outcome, collection_metadata >>
    /\ UNCHANGED parser_vars

\* _save_intermediate_results, lines 225-243: the partial results are written,
\* and the loop goes on
SavePartial ==
    /\ cpc = "save_partial"
    /\ files' = [files EXCEPT !.partial = Some(local.detailed_courses)]
    /\ local' = [local EXCEPT !.i = @ + 1]
    /\ cpc' = "for course"
    /\ UNCHANGED << log, outcome, collection_metadata >>
    /\ UNCHANGED parser_vars

\* lines 178-201: the loop is over, the final detailed schedule is saved
SaveFinal ==
    /\ cpc = "for course"
    /\ local.method = "collect_details_for_schedule"
    /\ local.i = Len(local.courses_to_process)
    /\ files' = [files EXCEPT !.final = Some(local.detailed_courses)]
    /\ cpc' = "unlink"
    /\ UNCHANGED << local, log, outcome, collection_metadata >>
    /\ UNCHANGED parser_vars

\* lines 206-210: the progress file is removed and the path is returned
UnlinkProgress ==
    /\ cpc = "unlink"
    /\ files' = [files EXCEPT !.progress = None]
    /\ outcome' = Returned("final")
    /\ cpc' = "done"
    /\ UNCHANGED << local, log, collection_metadata >>
    /\ UNCHANGED parser_vars

\* the process is stopped where it is; the files stay as they are
Interrupt ==
    /\ local.method = "collect_details_for_schedule"
    /\ cpc \in {"for course", "save_progress", "save_partial", "unlink"}
    /\ Interrupts < MaxInterrupts
    /\ log' = Append(log, Event("interrupted", Interrupts, cpc))
    /\ cpc' = "idle"
    /\ local' = [method |-> "idle"]
    /\ UNCHANGED << outcome, collection_metadata, files >>
    /\ UNCHANGED parser_vars

NextResume ==
    \/ \E list \in CourseLists, resume \in BOOLEAN, batch_size \in {1, 2} :
          CallCollectDetailsForSchedule(list, resume, batch_size)
    \/ \E o \in {"ok", "RequestException"} : ProcessCourse(o)
    \/ SaveProgress
    \/ SavePartial
    \/ SaveFinal
    \/ UnlinkProgress
    \/ Interrupt

SpecResume == Init /\ [][NextResume]_vars

(***************************************************************************)
(* Properties                                                              *)
(***************************************************************************)
\* the last direct call was _parse_course_row and it returned a Course
CalledCourse == Called("_parse_course_row") /\ call[1].returned # None

\* the texts of the meeting-time block of a section row: the merged cell when
\* cell 6 carries a colspan, cells 6 to 13 otherwise
BlockTexts(row) ==
    IF At(row.tds, 6).colspan THEN << get_text(At(row.tds, 6)) >>
    ELSE [i \in 1..8 |-> get_text(At(row.tds, i + 5))]

\* the text "arr", in any case, occurs in one of the texts
HasArrMarker(texts) == \E i \in DOMAIN texts : Contains(Lower(texts[i]), T_arr)

\* C1: every Course that _parse_course_row builds for parse_schedule_html has
\* exactly one MeetingTime, and so has every list _parse_meeting_times returns,
\* for blocks of 0 to 8 cells, merged or not, and every location
C1_OneMeetingTime ==
    /\ CalledCourse => Len(call[1].returned[1].meeting_times) = 1
    /\ Called("_parse_meeting_times") => Len(call[1].returned) = 1

\* a Course was built from a merged-cell row that holds no marker, no day and no
\* time, and an empty block was interpreted
C1_Witness_Course ==
    /\ CalledCourse
    /\ At(call[1].row.tds, 6).colspan
    /\ call[1].returned[1].meeting_times[1].days = T_TBA

\* a parse_schedule_html call is running its loop or has returned
InCall == pc \in {"parsing", "returned"}

\* the ids of the rows the loop of the running call has processed
Seen == SubSeq(all_rows, 1, pos)

\* the row has a subject-header or a course-header cell
IsHeaderRow(row) == FindSubjectHeader(row) # 0 \/ FindCourseHeader(row) # 0

\* a malformed row: no header, and fewer than 15 cells
IsShortRow(row) == ~IsHeaderRow(row) /\ Len(row.tds) < 15

\* the two signals of a data row: a course-popup link in one of the first five
\* cells, and at least 15 cells of class default1 or default2
HasLinkInFirstFive(row) ==
    \E i \in 1..5 : i <= Len(row.tds) /\ HasPopupLink(row.tds[i])
TaggedCells(row) ==
    Cardinality({i \in DOMAIN row.tds : row.tds[i].cls \in {"default1", "default2"}})
BothSignals(row) == HasLinkInFirstFive(row) /\ TaggedCells(row) >= 15

\* C2: when a page has been parsed a second time by the same parser, the second
\* call returns the Course list the first call returned
C2_SameCoursesTwice ==
    pc = "returned" /\ prev # None => result[1].courses = prev[1]

\* C3: every parse_schedule_html call starts with current_subject and
\* current_course_title unset, and its Courses are those a parser with an
\* unset context builds from the rows of this page
C3_ContextScopedToCall ==
    InCall =>
        /\ entry = << None, None >>
        /\ courses = ParseRows(Seen, None, None, << >>).courses

\* C4: rows with fewer than 15 cells and no header cell add no Course and change
\* nothing: the Courses and the header context after any processed rows are
\* those of the same rows with the short rows taken out
C4_ShortRowIsolated ==
    InCall =>
        LET kept == SelectSeq(Seen, LAMBDA r : ~IsShortRow(PageRows[r]))
            ref == ParseRows(kept, entry[1], entry[2], << >>)
        IN  /\ courses = ref.courses
            /\ current_subject = ref.current_subject
            /\ current_course_title = ref.current_course_title

\* a short row with a CRN link stood between two well-formed section rows and
\* the call has the two Courses of its neighbours
C4_Witness_ShortBetweenTwo ==
    /\ pc = "parsing"
    /\ Seen = << 4, 6, 4 >>
    /\ Len(courses) = 2
    /\ courses[2] = courses[1]

\* C5: every Course of the running call comes from a processed row that has
\* both signals, the link in its first five cells and 15 tagged cells
C5_BothSignalsNeeded ==
    InCall =>
        \A i \in DOMAIN courses :
            \E j \in DOMAIN Seen :
                /\ BothSignals(PageRows[Seen[j]])
                /\ CrnOf(PageRows[Seen[j]].tds) = Some(courses[i].crn)

\* C6: no exception of a single row leaves parse_schedule_html
C6_NoRowAborts == pc # "raised"

\* C7: a step changes current_subject or current_course_title only if it is the
\* loop processing a row with a subject-header or course-header cell, or the
\* construction of a new parser; data rows, accepted, skipped or failing, and
\* ignorable rows leave both as they are
C7_ContextChangesOnlyOnHeader ==
    [][ << current_subject, current_course_title >>'
            # << current_subject, current_course_title >>
        => \/ pc = "idle" /\ pc' = "idle"
           \/ /\ pc = "parsing"
              /\ pos' = pos + 1
              /\ IsHeaderRow(PageRows[all_rows'[pos']]) ]_vars

\* a course header, then a section row that fails, then a section row that is
\* accepted: the header is still in effect and gave the Course its subject
C7_Witness_ContextSurvivesDataRows ==
    /\ pc = "parsing"
    /\ Seen = << 2, 9, 4 >>
    /\ current_course_title = Some(T_ACCT100_header)
    /\ Len(courses) = 1
    /\ courses[1].course_number = << "1", "0", "0" >>

\* C8 as stated: on the returned aggregate the field total_courses is
\* len(courses) and the field departments is the sorted distinct subjects
C8_FieldsHoldDerivedValues ==
    pc = "returned" =>
        /\ result[1].total_courses = Some(Len(result[1].courses))
        /\ result[1].departments = Some(Sorted(Subjects(result[1].courses)))

\* the sequence is strictly ascending in the order of str
StrictlyAscending(seq) ==
    \A i, j \in DOMAIN seq : i < j => seq[i] # seq[j] /\ TextLeq(seq[i], seq[j])

\* C8, corrected: on the aggregate parse_schedule_html returns, the two values
\* are under metadata: metadata.total_courses is len(courses) and
\* metadata.departments is the ascending list of the distinct subjects; the
\* fields total_courses and departments are unset
C8_MetadataHoldsDerivedValues ==
    pc = "returned" =>
        /\ result[1].metadata.total_courses = Len(result[1].courses)
        /\ StrictlyAscending(result[1].metadata.departments)
        /\ Range(result[1].metadata.departments)
             = {result[1].courses[i].subject : i \in DOMAIN result[1].courses}
        /\ result[1].total_courses = None
        /\ result[1].departments = None

\* an aggregate of two Courses was returned whose first subject, UNKNOWN, sorts
\* after its second, MATH
C8_Witness_TwoDepartments ==
    /\ pc = "returned"
    /\ Len(result[1].courses) = 2
    /\ result[1].courses[1].subject = T_UNKNOWN
    /\ result[1].metadata.departments = << << "M", "A", "T", "H" >>, T_UNKNOWN >>

\* the row is accepted as a data row: no header cell, at least 15 cells, a
\* course-popup link with a non-empty text in the first five cells, and cells
\* that can be read
Accepted(row) ==
    /\ ~IsHeaderRow(row)
    /\ Len(row.tds) >= 15
    /\ HasLinkInFirstFive(row)
    /\ ~row.fault
    /\ \E i \in 1..5 : HasPopupLink(row.tds[i]) /\ Strip(row.tds[i].text) # << >>

\* the positions in the page of the accepted rows among the first n, ascending
RECURSIVE AcceptedPositions(_)
AcceptedPositions(n) ==
    IF n = 0 THEN << >>
    ELSE IF Accepted(PageRows[all_rows[n]])
         THEN Append(AcceptedPositions(n - 1), n)
         ELSE AcceptedPositions(n - 1)

\* the text of the course header in effect at position j of the page: that of
\* the last course-header row before j, or the one the call started with
RECURSIVE HeaderInEffect(_)
HeaderInEffect(j) ==
    IF j = 1 THEN entry[2]
    ELSE LET row == PageRows[all_rows[j - 1]]
         IN  IF FindSubjectHeader(row) = 0 /\ FindCourseHeader(row) # 0
             THEN Some(row.tds[FindCourseHeader(row)].text)
             ELSE HeaderInEffect(j - 1)

\* what the two course headers of the pages say
HeaderSays(header) ==
    IF header = T_ACCT100_header
    THEN [subject |-> << "A", "C", "C", "T" >>, course_number |-> << "1", "0", "0" >>,
          title |-> << "I", "n", "t", "r", "o", " ", "-", " ", "I" >>]
    ELSE [subject |-> << "M", "A", "T", "H" >>, course_number |-> << "2", "0", "0" >>,
          title |-> T_MATH200_header]

\* C9: the Courses of the call are, in page order, one per accepted row: the
\* i-th has the CRN of the i-th accepted row and the subject, course number and
\* title of the course header in effect at that row; no other row adds a Course
C9_OneCoursePerAcceptedRowInOrder ==
    InCall =>
        LET acc == AcceptedPositions(pos)
        IN  /\ Len(courses) = Len(acc)
            /\ \A i \in DOMAIN acc :
                  LET header == HeaderInEffect(acc[i])
                  IN  /\ Some(courses[i].crn) = CrnOf(PageRows[all_rows[acc[i]]].tds)
                      /\ header # None =>
                            /\ courses[i].subject = HeaderSays(header[1]).subject
                            /\ courses[i].course_number = HeaderSays(header[1]).course_number
                            /\ courses[i].title = HeaderSays(header[1]).title

\* a page of a course header and two accepted rows was returned with the two
\* Courses in page order, both under the header
C9_Witness_TwoRowsInOrder ==
    /\ pc = "returned"
    /\ all_rows = << 2, 4, 5 >>
    /\ Len(result[1].courses) = 2
    /\ result[1].courses[1].crn = << "7", "5", "0", "6", "5" >>
    /\ result[1].courses[2].crn = << "7", "5", "0", "6", "6" >>
    /\ result[1].courses[2].title = << "I", "n", "t", "r", "o", " ", "-", " ", "I" >>

\* C10: when "arr" occurs in any case anywhere in the meeting-time block, the
\* result is the single MeetingTime ARR, arranged, without times, whatever days
\* and time range the block also holds
C10_ArrMarkerWins ==
    /\ Called("_parse_meeting_times") /\ HasArrMarker(call[1].meeting_info)
         => call[1].returned = << MeetingTime(T_ARR, None, None, TRUE) >>
    /\ CalledCourse /\ HasArrMarker(BlockTexts(call[1].row))
         => call[1].returned[1].meeting_times = << MeetingTime(T_ARR, None, None, TRUE) >>

\* a row whose block holds the marker ARR, the day code MW and a valid time
\* range was parsed into a Course
C10_Witness_ArrWithDayAndTime ==
    /\ CalledCourse
    /\ ~At(call[1].row.tds, 6).colspan
    /\ get_text(At(call[1].row.tds, 6)) = T_ARR
    /\ get_text(At(call[1].row.tds, 7)) \in DayCodes
    /\ ScheduledTimes(BlockTexts(call[1].row)) # << >>
    /\ call[1].returned[1].meeting_times[1].days = T_ARR

\* the location text indicates online asynchronous delivery
IsOnlineAsync(location) ==
    Contains(Lower(location), T_online) /\ Contains(Lower(location), T_async)

\* the single entry of step 4: ASYNC for an online asynchronous location, TBA
\* otherwise
FallbackEntry(location) ==
    MeetingTime(IF IsOnlineAsync(location) THEN T_ASYNC ELSE T_TBA, None, None, TRUE)

\* C11: a Course built from a row whose first meeting-time cell has a colspan
\* has the single MeetingTime of step 4, ASYNC or TBA by its location, whatever
\* the text of the merged cell
C11_MergedCellFallsThrough ==
    CalledCourse /\ At(call[1].row.tds, 6).colspan
        => call[1].returned[1].meeting_times
             = << FallbackEntry(call[1].returned[1].location) >>

\* the text of slot i of the block, "" when the block has no slot i
SlotText(meeting_info, i) ==
    IF i < Len(meeting_info) THEN At(meeting_info, i) ELSE << >>

\* the accepted day tokens of slots 1, 3 and 5, concatenated in slot order
DayTokens(meeting_info) ==
    LET token(i) == IF Strip(SlotText(meeting_info, i)) \in DayCodes
                    THEN Strip(SlotText(meeting_info, i)) ELSE << >>
    IN  token(1) \o token(3) \o token(5)

\* the text of the final slot of a block of 8 cells, "" for a shorter block
FinalSlot(meeting_info) == SlotText(meeting_info, 7)

\* C12: for a block without marker, _parse_meeting_times returns a non-arranged
\* entry exactly when a day token is accepted and the final slot holds a colon
\* and a hyphen; its days are the tokens in slot order and its times the
\* trimmed texts before and after the first hyphen of the final slot
C12_ScheduledExactlyWhenDaysAndRange ==
    Called("_parse_meeting_times") /\ ~HasArrMarker(call[1].meeting_info)
        => LET days == DayTokens(call[1].meeting_info)
               time_str == FinalSlot(call[1].meeting_info)
               hyphen == Find(time_str, << "-" >>)
           IN  IF days # << >> /\ hyphen # 0 /\ Contains(time_str, << ":" >>)
               THEN call[1].returned
                      = << MeetingTime(days,
                                       Some(Strip(SubSeq(time_str, 1, hyphen - 1))),
                                       Some(Strip(SubSeq(time_str, hyphen + 1, Len(time_str)))),
                                       FALSE) >>
               ELSE \A i \in DOMAIN call[1].returned : call[1].returned[i].is_arranged

\* C13: when the block has no marker and no non-arranged entry is recovered, the
\* result is the single arranged entry ASYNC if the location holds "online" and
\* "async" in any case, TBA otherwise; a Course with the ASYNC entry has the
\* delivery method "Online ASYNC"
C13_FallbackByLocation ==
    /\ Called("_parse_meeting_times") /\ ~HasArrMarker(call[1].meeting_info)
       /\ (\A i \in DOMAIN call[1].returned : call[1].returned[i].is_arranged)
         => call[1].returned = << FallbackEntry(call[1].location) >>
    /\ CalledCourse /\ ~HasArrMarker(BlockTexts(call[1].row))
       /\ (\A i \in DOMAIN call[1].returned[1].meeting_times :
               call[1].returned[1].meeting_times[i].is_arranged)
         => /\ call[1].returned[1].meeting_times
                 = << FallbackEntry(get_text(At(call[1].row.tds, 14))) >>
            /\ IsOnlineAsync(get_text(At(call[1].row.tds, 14)))
                 => call[1].returned[1].delivery_method = T_OnlineASYNC

\* Scenario B: a Course was built from a row with location "Online ASYNC" and a
\* block without marker, day or time: its entry is ASYNC
C13_Witness_ScenarioB ==
    /\ CalledCourse
    /\ ~At(call[1].row.tds, 6).colspan
    /\ get_text(At(call[1].row.tds, 14)) = T_OnlineASYNC
    /\ \A i \in 6..13 : get_text(At(call[1].row.tds, i)) = << >>
    /\ call[1].returned[1].meeting_times = << MeetingTime(T_ASYNC, None, None, TRUE) >>
    /\ call[1].returned[1].delivery_method = T_OnlineASYNC

\* the label of the location and the meeting times, each label given by the
\* condition under which it is the first match
DeliveryLabelIs(label, location, meeting_times) ==
    LET has(token) == Contains(Lower(location), token)
        arranged == \E i \in DOMAIN meeting_times : meeting_times[i].is_arranged
    IN  /\ label = T_OnlineASYNC <=> has(T_online) /\ has(T_async)
        /\ label = T_OnlineSYNC <=> has(T_online) /\ has(T_sync) /\ ~has(T_async)
        /\ label = T_Online <=> has(T_online) /\ ~has(T_sync)
        /\ label = T_Hybrid <=> ~has(T_online) /\ has(T_hybrid)
        /\ label = T_Arranged <=> ~has(T_online) /\ ~has(T_hybrid) /\ arranged
        /\ label = T_InPerson <=> ~has(T_online) /\ ~has(T_hybrid) /\ ~arranged

\* C14: _determine_delivery_method returns the first label that matches in the
\* order Online ASYNC, Online SYNC, Online, Hybrid, Arranged, In-Person, for
\* every location and meeting-time list, and so does the Course of a row
C14_DeliveryMethodPriority ==
    /\ Called("_determine_delivery_method")
         => DeliveryLabelIs(call[1].returned, call[1].location, call[1].meeting_times)
    /\ CalledCourse
         => DeliveryLabelIs(call[1].returned[1].delivery_method,
                            call[1].returned[1].location,
                            call[1].returned[1].meeting_times)

\* the method was called with a plain room and a scheduled and an arranged
\* meeting time, and returned Arranged
C14_Witness_ArrangedInRoom ==
    /\ Called("_determine_delivery_method")
    /\ call[1].location = << "A", "2", "0", "7" >>
    /\ Len(call[1].meeting_times) = 2
    /\ call[1].returned = T_Arranged

\* the last direct call was _parse_course_row on a row of the given set
CalledRowOf(rows) == Called("_parse_course_row") /\ call[1].row \in rows

\* what float() makes of the texts of NumberTexts once cleaned, as num / den
UnitsOfText(text) ==
    IF text \in {<< "3", ".", "0" >>, << " ", " ", "4", ".", "0", " ", " " >>}
    THEN Float(DigitVal(IF Len(text) = 3 THEN "3" ELSE "4"), 1)
    ELSE IF text = << "-", "5" >> THEN Float(5, 1)
    ELSE IF text = << "1", "2", " ", "w", "k", "s" >> THEN Float(12, 1)
    ELSE IF text = << ".", "5" >> THEN Float(5, 10)
    ELSE Float(0, 1)

C16_MissingColumnsDefault ==
    CalledRowOf(LengthRows)
        => /\ call[1].returned # None
           /\ LET n == Len(call[1].row.tds)
                  c == call[1].returned[1]
                  weeks_text == IF n > 21 THEN At(call[1].row.tds, 21).text ELSE << >>
              IN  /\ c.location = << "A", "2", "0", "7" >>
                  /\ c.enrollment.capacity = IF n > 15 THEN 30 ELSE 0
                  /\ c.enrollment.actual = IF n > 16 THEN 25 ELSE 0
                  /\ c.enrollment.remaining = IF n > 17 THEN 5 ELSE 0
                  /\ (c.instructor = T_TBA) <=> (n <= 18)
                  /\ (c.instructor_email = None) <=> (n <= 19)
                  /\ (c.start_date = None) <=> (n <= 20)
                  /\ (c.end_date = None) <=> (n <= 20)
                  /\ c.weeks > 0
                  /\ c.weeks = IF weeks_text = << "8" >> THEN 8 ELSE 16

\* a row cut to 18 cells gave a Course with its enrollment, the instructor TBA,
\* no email, no dates and 16 weeks
C16_Witness_EighteenCells ==
    /\ CalledRowOf(LengthRows)
    /\ Len(call[1].row.tds) = 18
    /\ call[1].returned # None
    /\ call[1].returned[1].enrollment = Enrollment(30, 25, 5)
    /\ call[1].returned[1].instructor = T_TBA
    /\ call[1].returned[1].start_date = None
    /\ call[1].returned[1].weeks = 16

\* C17: when the course header in effect is missing or gives no subject and
\* number, a section row still yields its Course, with the subject of
\* current_subject when that is set and UNKNOWN when it is not
C17_SubjectFallback ==
    Called("_parse_course_row")
    /\ call[1].current_course_title \in {None, Some(<< "T", "o", "p", "i", "c", "s" >>)}
        => /\ call[1].returned # None
           /\ call[1].returned[1].subject
                = IF call[1].current_subject = None THEN T_UNKNOWN
                  ELSE call[1].current_subject[1]
           /\ call[1].returned[1].course_number = << >>

\* a row parsed under the subject header MATH and the course header "Topics"
\* gave a Course of subject MATH
C17_Witness_SubjectFromSubjectHeader ==
    /\ CalledCourse
    /\ call[1].current_course_title = Some(<< "T", "o", "p", "i", "c", "s" >>)
    /\ call[1].current_subject = Some(<< "M", "A", "T", "H" >>)
    /\ call[1].returned[1].subject = << "M", "A", "T", "H" >>
    /\ call[1].returned[1].title = << "T", "o", "p", "i", "c", "s" >>

\* C18: in the list of one parse_schedule_html call every Course has a
\* non-empty crn and no two Courses have the same crn
C18_CrnUniqueInPass ==
    InCall =>
        /\ \A i \in DOMAIN courses : courses[i].crn # << >>
        /\ \A i, j \in DOMAIN courses : i # j => courses[i].crn # courses[j].crn

\* the required fields that hold a text
TextFields == {"term", "term_code", "source_url", "college_id", "collector_version"}

\* the required field is missing (None) or is an empty text
MissingOrEmpty(data_dict, f) ==
    \/ data_dict[f] = None
    \/ f \in TextFields /\ data_dict[f] # None /\ data_dict[f][1] = ""

\* C19 as stated: validate_output raises ValueError "Missing required field:
\* <name>", <name> a required field that is missing or empty, whenever there
\* is such a field, and returns only when there is none and every course has a
\* non-empty crn and subject
C19_RaisesOnMissingOrEmpty ==
    Called("validate_output") =>
        LET data_dict == call[1].data_dict
            returned == call[1].returned
        IN  /\ (\E f \in Range(required_fields) : MissingOrEmpty(data_dict, f))
                 => /\ returned # None
                    /\ returned[1].message[1] = "Missing required field: "
                    /\ MissingOrEmpty(data_dict, returned[1].message[2])
            /\ returned = None
                 => \A i \in DOMAIN data_dict["courses"][1] :
                       /\ data_dict["courses"][1][i].crn # << >>
                       /\ data_dict["courses"][1][i].subject # << >>

\* C20: load_schedule of the file save_schedule wrote returns a ScheduleData
\* with the term, term_code, collection_timestamp, source_url, courses and
\* metadata total_courses and departments of the one that was saved, for the
\* compression settings none, gzip and bzip2
C20_StorageRoundTrip ==
    [][ Called("save_schedule") /\ call'[1].method = "load_schedule"
        => LET saved == call[1].schedule_data
               loaded == call'[1].returned
           IN  /\ DOMAIN loaded = DOMAIN saved
               /\ loaded.term = saved.term
               /\ loaded.term_code = saved.term_code
               /\ loaded.collection_timestamp = saved.collection_timestamp
               /\ loaded.source_url = saved.source_url
               /\ loaded.courses = saved.courses
               /\ loaded.metadata.total_courses = saved.metadata.total_courses
               /\ loaded.metadata.departments = saved.metadata.departments ]_vars

\* a gzip file of a ScheduleData of two Courses, a timestamp with microseconds
\* and a caller-given total_courses of 5 was loaded again
C20_Witness_GzipLoaded ==
    /\ Called("load_schedule")
    /\ disk # None
    /\ disk[1].codec = "gzip"
    /\ Len(call[1].returned.courses) = 2
    /\ call[1].returned.collection_timestamp.microsecond = 1234
    /\ call[1].returned.metadata.total_courses = 5
    /\ call[1].returned.courses[1].units = Float(0, 1)

\* the position in the page of the last header row before position j, 0 when
\* there is none
RECURSIVE MostRecentHeader(_)
MostRecentHeader(j) ==
    IF j = 1 THEN 0
    ELSE IF IsHeaderRow(PageRows[all_rows[j - 1]]) THEN j - 1
    ELSE MostRecentHeader(j - 1)

\* C29: the subject of every Course is the subject code of the most recent
\* header row before its data row; when that row is a subject header, the
\* Course has neither the course number nor the title of an earlier course
\* header
C29_SubjectOfMostRecentHeader ==
    InCall =>
        LET acc == AcceptedPositions(pos)
        IN  \A i \in DOMAIN acc :
               LET h == MostRecentHeader(acc[i])
                   row == PageRows[all_rows[h]]
               IN  h # 0 =>
                     IF FindSubjectHeader(row) # 0
                     THEN /\ courses[i].subject = << "M", "A", "T", "H" >>
                          /\ courses[i].course_number = << >>
                          /\ courses[i].title = T_UnknownCourse
                     ELSE courses[i].subject
                            = HeaderSays(row.tds[FindCourseHeader(row)].text).subject

\* the MeetingTime is well formed: arranged without times, or not arranged
\* with days and both times non-empty
WellFormed(mt) ==
    IF mt.is_arranged
    THEN mt.start_time = None /\ mt.end_time = None
    ELSE /\ mt.days # << >>
         /\ mt.start_time # None /\ mt.start_time[1] # << >>
         /\ mt.end_time # None /\ mt.end_time[1] # << >>

\* C30: every MeetingTime _parse_meeting_times returns, and every MeetingTime
\* of a Course, is well formed
C30_MeetingTimesWellFormed ==
    /\ Called("_parse_meeting_times")
         => \A i \in DOMAIN call[1].returned : WellFormed(call[1].returned[i])
    /\ CalledCourse
         => \A i \in DOMAIN call[1].returned[1].meeting_times :
               WellFormed(call[1].returned[1].meeting_times[i])

\* _fetch_schedule_page is the collector method that runs or has run
InFetch == local.method = "_fetch_schedule_page"

\* the request of a "post" entry of the log failed
Failed(ev) == ev.arg.raised # None \/ ev.arg.status_code >= 400

\* the method has returned v
HasReturned(v) == outcome # None /\ outcome[1].kind = "returned" /\ outcome[1].value = v

\* the method has raised e
HasRaised(e) == outcome # None /\ outcome[1].kind = "raised" /\ outcome[1].value = e

\* the request error of a failed "post" entry
ErrorOf(ev) == IF ev.arg.raised # None THEN ev.arg.raised[1] ELSE "HTTPError"

\* C22: _fetch_schedule_page makes at most retry_attempts POST attempts; a
\* successful attempt is the last thing but the rate limit delay and its body is
\* what is returned; a failed attempt k that is not the last is followed by a
\* wait of 2^k seconds and then by attempt k + 1; the last failed attempt is
\* followed by nothing, and its request error is what is raised.
C22_RetryWithBackoff ==
    InFetch =>
        /\ Cardinality({i \in DOMAIN log : log[i].op = "post"}) <= local.max_retries
        /\ \A i \in DOMAIN log :
              log[i].op = "post" =>
                  IF ~Failed(log[i])
                  THEN /\ \A j \in DOMAIN log :
                             j > i => j = i + 1 /\ log[j].op = "rate_limit_delay"
                       /\ outcome # None => HasReturned(Some(log[i].arg.text))
                  ELSE IF log[i].attempt < local.max_retries - 1
                  THEN /\ i < Len(log) =>
                             log[i + 1] = Event("sleep", log[i].attempt, 2 ^ log[i].attempt)
                       /\ i + 1 < Len(log) =>
                             /\ log[i + 2].op = "post"
                             /\ log[i + 2].attempt = log[i].attempt + 1
                  ELSE /\ i = Len(log)
                       /\ outcome # None => HasRaised(ErrorOf(log[i]))
        /\ (cpc = "done" /\ local.max_retries > 0) =>
              \E i \in DOMAIN log : log[i].op = "post" /\ i >= Len(log) - 1

\* two attempts failed, the waits were 1 and 2 seconds, and the third attempt
\* returned its page
C22_Witness_ThirdAttemptSucceeds ==
    /\ InFetch
    /\ cpc = "done"
    /\ HasReturned(Some(<< 1, 4 >>))
    /\ Len(log) = 6
    /\ log[2].op = "sleep" /\ log[2].arg = 1
    /\ log[4].op = "sleep" /\ log[4].arg = 2
    /\ Failed(log[1]) /\ Failed(log[3])

\* C28: whenever _fetch_schedule_page returns, it returns a page, whatever the
\* configured retry_attempts is
C28_NeverReturnsWithoutPage ==
    (InFetch /\ outcome # None /\ outcome[1].kind = "returned") =>
        outcome[1].value # None

\* BaseCollector.collect is the collector method that runs or has run
InBaseCollect == local.method = "BaseCollector.collect"

\* the positions of the log before i hold steps that succeeded
AllOkBefore(i) == \A j \in 1 .. (i - 1) : log[j].arg = "ok"

\* C24: in BaseCollector.collect the steps that have run are fetch_data,
\* parse_data, validate_output, save_output in this order, each at most once;
\* save_output runs only when save is true and every earlier step succeeded; a
\* step that fails is the last step of the run, and its exception is what
\* collect raises; a run without failure ends after save_output when save is
\* true and after validate_output when it is false, and returns.
C24_StepsInFixedOrder ==
    InBaseCollect =>
        /\ Len(log) <= Len(Steps)
        /\ \A i \in DOMAIN log :
              /\ log[i].op = Steps[i]
              /\ AllOkBefore(i)
              /\ log[i].op = "save_output" => local.save
              /\ log[i].arg # "ok" => (outcome # None => HasRaised(log[i].arg))
        /\ (cpc = "done" /\ AllOkBefore(Len(log) + 1)) =>
              /\ Len(log) = IF local.save THEN 4 ELSE 3
              /\ outcome[1].kind = "returned"

\* validate_output has raised, with save true: the run ended there and the
\* ValueError left collect
C24_Witness_ValidationStopsTheRun ==
    /\ InBaseCollect
    /\ cpc = "done"
    /\ local.save
    /\ Len(log) = 3
    /\ log[3] = Event("validate_output", local.start_time, "ValueError")
    /\ HasRaised("ValueError")

InRioHondoCollect == local.method = "RioHondoCollector.collect"

\* C23: in RioHondoCollector.collect storage.save_schedule is reached only
\* after validate_output has accepted the collected ScheduleData, and when
\* collect has returned or raised the collection_metadata of the run is set
C23_ValidatedBeforeSaved ==
    InRioHondoCollect =>
        /\ \A i \in DOMAIN log :
              log[i].op = "save_schedule" =>
                  /\ \E j \in 1 .. (i - 1) : log[j] = Event("validate_output",
                                                           local.start_time, "ok")
                  /\ validate_output(model_dump(local.schedule_data[1])) = None
        /\ outcome # None =>
              /\ collection_metadata # None
              /\ collection_metadata[1].start_time = local.start_time

\* collect_all_departments has returned for a list of department codes
DepartmentsCollected ==
    /\ local.method = "collect_all_departments"
    /\ local.departments # << "ALL" >>
    /\ outcome # None

\* the pages of the departments that were collected, in the order of the list
CollectedPages ==
    LET kept == SelectSeq(log, LAMBDA ev : ev.op = "collected")
    IN  [i \in DOMAIN kept |-> kept[i].arg]

\* the codes of the departments that failed, in the order of the list
FailedDepartments ==
    LET lost == SelectSeq(log, LAMBDA ev : ev.op = "failed")
    IN  [i \in DOMAIN lost |-> lost[i].attempt]

\* the Courses a new collector gathers from the pages of a list of departments
\* none of which fails: the loop of lines 325-335 from the context subject, title
RECURSIVE CoursesOfPages(_, _, _)
CoursesOfPages(pages, subject, title) ==
    IF pages = << >> THEN << >>
    ELSE LET after == ParseRows(Head(pages), subject, title, << >>)
         IN  after.courses \o CoursesOfPages(Tail(pages), after.current_subject,
                                             after.current_course_title)

\* C21: with a list of departments, every department that failed in its request
\* or in its parse has one entry in collection_errors and the Courses of the
\* result are the Courses the other departments give, in the order of the list,
\* when the collection is run on a list without the departments that failed.
C21_FailedDepartmentIsolated ==
    DepartmentsCollected =>
        LET data == outcome[1].value
            errors == data.metadata["collection_errors"]
        IN  /\ outcome[1].kind = "returned"
            /\ Len(FailedDepartments) = (IF errors = None THEN 0 ELSE Len(errors[1]))
            /\ \A i \in DOMAIN FailedDepartments : errors[1][i][2] = FailedDepartments[i]
            /\ data.courses = CoursesOfPages(CollectedPages, None, None)

\* C26: the list collect_course_details returns has one entry per input
\* course, in input order, the i-th with the crn of the i-th input course; the
\* entry of a course whose request or parse failed has no details; no delay
\* follows the request of the last course.
C26_OneEntryPerCourse ==
    (local.method = "collect_course_details" /\ outcome # None) =>
        LET entries == outcome[1].value
        IN  /\ Len(entries) = Len(local.courses)
            /\ \A i \in DOMAIN entries : entries[i].crn = local.courses[i].crn
            /\ \A j \in DOMAIN log :
                  /\ (log[j].op = "get" /\ log[j].arg # "ok") =>
                        entries[log[j].attempt + 1].detail_fetched_at = None
                  /\ log[j].op = "sleep" => log[j].attempt < Len(local.courses) - 1

\* the Courses of the detailed schedule whose path the run returned
FinalDetailedCourses ==
    IF outcome[1].value = "final" THEN files.final[1]
    ELSE IF outcome[1].value = "partial" /\ files.partial # None THEN files.partial[1]
    ELSE << >>

\* C27: when a run of collect_details_for_schedule was interrupted and the next
\* run, with resume=True on the same schedule file, has returned, the detailed
\* schedule it returned holds every course of the input schedule exactly once.
C27_ResumeKeepsEveryCourseOnce ==
    (/\ local.method = "collect_details_for_schedule"
     /\ outcome # None
     /\ local.resume
     /\ Interrupts > 0) =>
        \A c \in Range(files.schedule[1]) :
            Cardinality({i \in DOMAIN FinalDetailedCourses :
                            FinalDetailedCourses[i].crn = c.crn}) = 1

=============================================================================
